---- MODULE Spec2Model ----
(***************************************************************************)
(* Model of the offline-first synchronization engine of                    *)
(* src/context/AppContext.tsx (AppProvider): the live snapshot, SyncState, *)
(* the Local Store, the remote store, and every asynchronous handler with  *)
(* the values its closure captured when it was called.                     *)
(*                                                                         *)
(* React semantics that the model keeps:                                   *)
(*  - a handler called from the UI or from an effect reads the state of    *)
(*    the render it was created in; after an await it still reads those    *)
(*    captured values, while functional updaters (setX(prev => ...)) act   *)
(*    on the current state.  A pending continuation is a record of `tasks` *)
(*    holding what the closure captured.                                   *)
(*  - the persistence effects (lines 108-127) run after every render, so   *)
(*    the primary storage keys mirror the live state between two steps.    *)
(*  - refs (sessionVersion, isBackingUpRef, isLoggingOutRef) are shared    *)
(*    and read at the time of the access.                                  *)
(***************************************************************************)
EXTENDS Integers, Sequences, FiniteSets, TLC

\* ------------------------------------------------------------------ bounds
MaxMutations == 1      \* mutating operations per behaviour
MaxTasks == 2          \* asynchronous continuations pending at once
MaxTicks == 1          \* advances of the clock per behaviour
MaxRemote == 1         \* writes to the remote store by other devices
MaxSession == 2        \* auth callbacks and logouts per behaviour

\* ------------------------------------------------------- program constants
GraceWindow == 2       \* 1000 ms, in clock units of 500 ms (line 544)
NoRef == 0             \* an undefined account / category reference

Null == <<>>                       \* a null timestamp
Some(t) == <<t>>
NoData == [absent |-> TRUE]        \* storage.get(key, null) === null, or no remote row
NullId == "null"                   \* activeWalletId === null: the personal context
Wallets == {"w1", "w2"}
Contexts == Wallets \cup {NullId}
Me == "u1"                         \* the user of this device
Other == "u2"                      \* another member / another device's author id

INITIAL_ACCOUNTS == << [id |-> 1, name |-> "cash"], [id |-> 2, name |-> "bank"] >>
INITIAL_CATEGORIES == << [id |-> 1, name |-> "food"] >>
DEFAULT_SETTINGS == [autoBackup |-> "off", enableRealtime |-> TRUE]

\* The snapshot of a wallet with no local data (lines 222-228), also the
\* content of the primary keys on a fresh install (lines 74-82).
DefaultSnapshot ==
  [transactions |-> <<>>, accounts |-> INITIAL_ACCOUNTS, categories |-> INITIAL_CATEGORIES,
   budget |-> 0, category_budgets |-> <<>>, settings |-> DEFAULT_SETTINGS]

\* ---------------------------------------------------------------- helpers
Range(s) == {s[i] : i \in DOMAIN s}

RECURSIVE SeqFilter(_, _)
SeqFilter(s, keep) ==
  IF s = <<>> THEN <<>>
  ELSE (IF Head(s) \in keep THEN <<Head(s)>> ELSE <<>>) \o SeqFilter(Tail(s), keep)

\* { ...a, ...b } on records seen as functions from keys
Spread(a, b) ==
  [k \in DOMAIN a \cup DOMAIN b |-> IF k \in DOMAIN b THEN b[k] ELSE a[k]]

\* t.date.split('T')[0]: two clock units make one calendar day
DayOf(d) == (d + 1) \div 2

\* ------------------------------------------------- the 13 mutating inputs
\* Inputs of addTransaction (Omit<Transaction, 'id'>)
TxInputs ==
  { [date |-> 1, amount |-> 1, type |-> "expense", note |-> "", accountId |-> 1,
     fromAccountId |-> NoRef, toAccountId |-> NoRef, categoryId |-> 1],
    [date |-> 3, amount |-> 1, type |-> "transfer", note |-> "", accountId |-> NoRef,
     fromAccountId |-> 1, toAccountId |-> 2, categoryId |-> NoRef] }

WithId(data, id, pending) ==
  [id |-> id, date |-> data.date, amount |-> data.amount, type |-> data.type,
   note |-> data.note, accountId |-> data.accountId, fromAccountId |-> data.fromAccountId,
   toAccountId |-> data.toAccountId, categoryId |-> data.categoryId,
   isPendingSync |-> pending]

\* Inputs of importTransactions: rows of a spreadsheet; a row has an id or not
\* (id NoRef).  The first row has the signature of the first TxInputs entry.
ImportBatches ==
  { << WithId([date |-> 2, amount |-> 1, type |-> "expense", note |-> "", accountId |-> 1,
               fromAccountId |-> NoRef, toAccountId |-> NoRef, categoryId |-> NoRef],
              NoRef, FALSE),
       WithId([date |-> 3, amount |-> 2, type |-> "expense", note |-> "", accountId |-> 2,
               fromAccountId |-> NoRef, toAccountId |-> NoRef, categoryId |-> 1],
              50, FALSE) >> }

\* Inputs of updateSettings (Partial<AppSettings>)
SettingsInputs == { [autoBackup |-> "daily"], [enableRealtime |-> FALSE] }
BudgetInputs == {5}
NewDates == {2}
NewNames == {"renamed"}

\* safeUUID() (lines 59-71) and `acc_${Date.now()}` / `cat_${Date.now()}`:
\* a fresh id, made from the number of the operation and the row's index.
safeUUID(seed, i) == 10 * seed + i

\* ---------------------------------------------- CRUD on the live snapshot
TxIds(s) == {t.id : t \in Range(s.transactions)}
AccountIds(s) == {a.id : a \in Range(s.accounts)}
CategoryIds(s) == {c.id : c \in Range(s.categories)}

\* lines 295-296
addTransactionOp(s, data, seed) ==
  [s EXCEPT !.transactions = <<WithId(data, safeUUID(seed, 0), TRUE)>> \o @]

\* line 302 / 304: the import signature of a transaction
Sig(t) == <<DayOf(t.date), t.amount, t.type, t.note>>

\* lines 301-309
importTransactionsOp(s, newTxs, seed) ==
  LET existingSigs == {Sig(t) : t \in Range(s.transactions)}
      uniqueNew == SeqFilter(newTxs, {t \in Range(newTxs) : Sig(t) \notin existingSigs})
      safeUniqueNew ==
        [i \in DOMAIN uniqueNew |->
           [uniqueNew[i] EXCEPT !.id = IF @ # NoRef THEN @ ELSE safeUUID(seed, i),
                                !.isPendingSync = TRUE]]
  IN [s EXCEPT !.transactions = @ \o safeUniqueNew]

\* line 314
updateTransactionOp(s, data) ==
  [s EXCEPT !.transactions =
     [i \in DOMAIN @ |-> IF @[i].id = data.id THEN [data EXCEPT !.isPendingSync = TRUE]
                         ELSE @[i]]]

\* line 319
deleteTransactionOp(s, txId) ==
  [s EXCEPT !.transactions = SeqFilter(@, {t \in Range(@) : t.id # txId})]

\* line 325
addAccountOp(s, name, seed) ==
  [s EXCEPT !.accounts = @ \o <<[id |-> safeUUID(seed, 0), name |-> name]>>]

\* line 330
updateAccountNameOp(s, id, name) ==
  [s EXCEPT !.accounts = [i \in DOMAIN @ |-> IF @[i].id = id THEN [@[i] EXCEPT !.name = name]
                                             ELSE @[i]]]

\* deleteAccount falling back to the last remaining account instead of the first
deleteAccountOpLastRemaining(s, id) ==
  LET remainingAccounts == SeqFilter(s.accounts, {a \in Range(s.accounts) : a.id # id})
      fallbackId == IF Len(remainingAccounts) > 0
                    THEN remainingAccounts[Len(remainingAccounts)].id ELSE NoRef
      Fix(t) ==
        LET changed == t.accountId = id \/ t.fromAccountId = id \/ t.toAccountId = id
            nextT == [t EXCEPT !.accountId = IF @ = id THEN fallbackId ELSE @,
                               !.fromAccountId = IF @ = id THEN fallbackId ELSE @,
                               !.toAccountId = IF @ = id THEN fallbackId ELSE @]
        IN IF changed THEN [nextT EXCEPT !.isPendingSync = TRUE] ELSE nextT
  IN [s EXCEPT !.accounts = remainingAccounts,
               !.transactions = [i \in DOMAIN @ |-> Fix(@[i])]]

\* lines 335-346.  `accounts` of line 335 is the closure's; the handler is called
\* from the current render, where it is the live list.
deleteAccountOp(s, id) ==
  LET remainingAccounts == SeqFilter(s.accounts, {a \in Range(s.accounts) : a.id # id})
      fallbackId == IF Len(remainingAccounts) > 0 THEN remainingAccounts[1].id ELSE NoRef
      Fix(t) ==
        LET changed == t.accountId = id \/ t.fromAccountId = id \/ t.toAccountId = id
            nextT == [t EXCEPT !.accountId = IF @ = id THEN fallbackId ELSE @,
                               !.fromAccountId = IF @ = id THEN fallbackId ELSE @,
                               !.toAccountId = IF @ = id THEN fallbackId ELSE @]
        IN IF changed THEN [nextT EXCEPT !.isPendingSync = TRUE] ELSE nextT
  IN [s EXCEPT !.accounts = remainingAccounts,
               !.transactions = [i \in DOMAIN @ |-> Fix(@[i])]]

\* line 351
addCategoryOp(s, name, seed) ==
  [s EXCEPT !.categories = @ \o <<[id |-> safeUUID(seed, 0), name |-> name]>>]

\* line 356
updateCategoryOp(s, c) ==
  [s EXCEPT !.categories = [i \in DOMAIN @ |-> IF @[i].id = c.id THEN c ELSE @[i]]]

\* deleteCategory deleting the transactions of the category with it
deleteCategoryOpCascading(s, id) ==
  [s EXCEPT !.categories = SeqFilter(@, {c \in Range(@) : c.id # id}),
            !.category_budgets = SeqFilter(@, {b \in Range(@) : b.categoryId # id}),
            !.transactions = SeqFilter(@, {t \in Range(@) : t.categoryId # id})]

\* lines 361-366
deleteCategoryOp(s, id) ==
  [s EXCEPT !.categories = SeqFilter(@, {c \in Range(@) : c.id # id}),
            !.category_budgets = SeqFilter(@, {b \in Range(@) : b.categoryId # id}),
            !.transactions =
               [i \in DOMAIN @ |-> IF @[i].categoryId = id
                                   THEN [@[i] EXCEPT !.categoryId = NoRef, !.isPendingSync = TRUE]
                                   ELSE @[i]]]

\* line 370
updateBudgetOp(s, n) == [s EXCEPT !.budget = n]

\* line 372
updateCategoryBudgetOp(s, cid, n) ==
  [s EXCEPT !.category_budgets =
     SeqFilter(@, {b \in Range(@) : b.categoryId # cid}) \o <<[categoryId |-> cid, amount |-> n]>>]

\* line 375
updateSettingsOp(s, partial) == [s EXCEPT !.settings = Spread(@, partial)]


\* ------------------------------------------------------------------ state
VARIABLES
  live,            \* the six useState values of the snapshot (lines 74-82)
  syncState,       \* useState<SyncState> (lines 93-100)
  wallets,         \* useState<Wallet[]> (line 86), as the set of the wallet ids
  sessionVersion,  \* useRef(0) (line 103)
  isBackingUp,     \* isBackingUpRef (line 104)
  isLoggingOut,    \* isLoggingOutRef (line 105)
  store,           \* Local Store: the per-context snapshot keys (lines 207, 212)
  remoteBackup,    \* Remote Gateway: the user's backup envelope
  remoteWallet,    \* Remote Gateway: the wallet_data row of each wallet
  remoteWallets,   \* Remote Gateway: the wallets the user is a member of
  tasks,           \* continuations awaiting the network, with their captured values
  timer,           \* the pending setTimeout of the auto-backup effect (line 427)
  channel,         \* the realtime subscription of the listener effect (lines 159-202)
  now,             \* the clock, in units of 500 ms
  nMut,            \* mutating operations so far (seed of the fresh ids)
  nTick,           \* advances of the clock so far
  nRemote,         \* writes by other devices so far
  nLogout,         \* calls of logout() that passed its guard
  restoredAt,      \* history: logins and logouts begun when a restore last succeeded, or 0
  liveCtx,         \* history: the context whose data the live snapshot was loaded from
  storeCtx,        \* history: for each snapshot key, the context its content came from
  leftSnap,        \* history: the live snapshot when switchWallet last left each context
  lastOp           \* history: the operation of the last step and its outcome

vars == << live, syncState, wallets, sessionVersion, isBackingUp, isLoggingOut, store,
           remoteBackup, remoteWallet, remoteWallets, tasks, timer, channel, now,
           nMut, nTick, nRemote, nLogout, restoredAt, liveCtx, storeCtx, leftSnap,
           lastOp >>

NoTimer == [armed |-> FALSE]
NoChannel == [open |-> FALSE]

\* What checkAutoBackup and the backupUserData it calls read from their render
Capture(lv, ss) ==
  [armed |-> TRUE, live |-> lv, isLoggedIn |-> ss.isLoggedIn, user |-> ss.user,
   isOnline |-> ss.isOnline, unsyncedChanges |-> ss.unsyncedChanges,
   lastSync |-> ss.lastSync, activeWalletId |-> ss.activeWalletId]

\* line 429: the dependencies of the auto-backup effect
TimerDeps(lv, ss) ==
  << ss.isLoggedIn, ss.isOnline, lv.settings.autoBackup, ss.unsyncedChanges,
     lv.transactions, ss.lastSync >>

\* Variant: the active wallet is not a dependency
RealtimeDepsNoWallet(lv, ss) ==
  << ss.user, ss.isLoggedIn, lv.settings.enableRealtime, ss.lastSync >>

\* line 202: the dependencies of the realtime effect
RealtimeDeps(lv, ss) ==
  << ss.user, ss.isLoggedIn, lv.settings.enableRealtime, ss.lastSync, ss.activeWalletId >>

\* lines 160-196: the body of the realtime effect
Subscribe(lv, ss, loggingOut) ==
  IF ss.user = NullId \/ ~ss.isLoggedIn \/ lv.settings.enableRealtime = FALSE \/ loggingOut
  THEN NoChannel
  ELSE [open |-> TRUE, scope |-> ss.activeWalletId, user |-> ss.user,
        lastSync |-> ss.lastSync, subscribed |-> FALSE]

\* The render that follows a handler's state updates, with the effects it runs:
\* the realtime effect (cleanup lines 198-201, then lines 160-196) and the
\* auto-backup effect (lines 427-428) when their dependencies changed.
Render(lv, ss, chan, loggingOut) ==
  LET rt == RealtimeDeps(lv, ss) # RealtimeDeps(live, syncState)
  IN /\ live' = lv
     /\ syncState' = IF rt THEN [ss EXCEPT !.isRealtimeConnected = FALSE] ELSE ss
     /\ channel' = IF rt THEN Subscribe(lv, ss, loggingOut) ELSE chan
     /\ timer' = IF TimerDeps(lv, ss) # TimerDeps(live, syncState) THEN Capture(lv, ss)
                 ELSE timer

InitSyncState ==
  [isLoggedIn |-> FALSE, user |-> NullId, lastSync |-> Null,
   pendingRestoreAvailable |-> FALSE, isOnline |-> TRUE, isSyncing |-> FALSE,
   isRealtimeConnected |-> FALSE, unsyncedChanges |-> FALSE, activeWalletId |-> NullId]

\* A fresh install: empty Local Store, one shared wallet on the server
Init ==
  /\ live = DefaultSnapshot
  /\ syncState = InitSyncState
  /\ wallets = {}
  /\ sessionVersion = 0
  /\ isBackingUp = FALSE
  /\ isLoggingOut = FALSE
  /\ store = [c \in Contexts |-> NoData]
  /\ remoteBackup = NoData
  /\ remoteWallet = [w \in Wallets |-> NoData]
  /\ remoteWallets = {"w1"}
  /\ tasks = {}
  /\ timer = Capture(DefaultSnapshot, InitSyncState)
  /\ channel = NoChannel
  /\ now = 1
  /\ nMut = 0
  /\ nTick = 0
  /\ nRemote = 0
  /\ nLogout = 0
  /\ restoredAt = 0
  /\ liveCtx = NullId
  /\ storeCtx = [c \in Contexts |-> NullId]
  /\ leftSnap = [c \in Contexts |-> NoData]
  /\ lastOp = [op |-> "init", res |-> "ok"]

Op(name, res) == [op |-> name, res |-> res]

\* ------------------------------------------------------------ Dirty Tracker
\* Variant: a handler that forgets the call
markAsDirtySkipped(ss) == ss

\* lines 149-156
markAsDirty(ss) ==
  IF ~ss.unsyncedChanges THEN [ss EXCEPT !.unsyncedChanges = TRUE] ELSE ss

\* A mutating handler: its change of the snapshot, then markAsDirty()
Mutate(name, lv) ==
  /\ nMut < MaxMutations
  /\ nMut' = nMut + 1
  /\ Render(lv, markAsDirty(syncState), channel, isLoggingOut)
  /\ lastOp' = Op(name, "ok")
  /\ UNCHANGED << wallets, sessionVersion, isBackingUp, isLoggingOut, store, remoteBackup,
                  remoteWallet, remoteWallets, tasks, now, nTick, nRemote, nLogout, restoredAt,
                  liveCtx,
                  storeCtx, leftSnap >>

addTransaction == \E d \in TxInputs : Mutate("addTransaction", addTransactionOp(live, d, nMut + 1))
importTransactions ==
  \E b \in ImportBatches : Mutate("importTransactions", importTransactionsOp(live, b, nMut + 1))
updateTransaction ==
  \E t \in Range(live.transactions), d \in NewDates :
     Mutate("updateTransaction", updateTransactionOp(live, [t EXCEPT !.date = d]))
deleteTransaction ==
  \E id \in TxIds(live) : Mutate("deleteTransaction", deleteTransactionOp(live, id))
addAccount == \E n \in NewNames : Mutate("addAccount", addAccountOp(live, n, nMut + 1))
updateAccountName ==
  \E id \in AccountIds(live), n \in NewNames :
     Mutate("updateAccountName", updateAccountNameOp(live, id, n))
deleteAccount == \E id \in AccountIds(live) : Mutate("deleteAccount", deleteAccountOp(live, id))
addCategory == \E n \in NewNames : Mutate("addCategory", addCategoryOp(live, n, nMut + 1))
updateCategory ==
  \E c \in Range(live.categories), n \in NewNames :
     Mutate("updateCategory", updateCategoryOp(live, [c EXCEPT !.name = n]))
deleteCategory ==
  \E id \in CategoryIds(live) : Mutate("deleteCategory", deleteCategoryOp(live, id))
updateBudget == \E n \in BudgetInputs : Mutate("updateBudget", updateBudgetOp(live, n))
updateCategoryBudget ==
  \E cid \in CategoryIds(live), n \in BudgetInputs :
     Mutate("updateCategoryBudget", updateCategoryBudgetOp(live, cid, n))
updateSettings == \E p \in SettingsInputs : Mutate("updateSettings", updateSettingsOp(live, p))

MutatingOps ==
  { "addTransaction", "importTransactions", "updateTransaction", "deleteTransaction",
    "addAccount", "updateAccountName", "deleteAccount", "addCategory", "updateCategory",
    "deleteCategory", "updateBudget", "updateCategoryBudget", "updateSettings" }

Mutation ==
  \/ addTransaction \/ importTransactions \/ updateTransaction \/ deleteTransaction
  \/ addAccount \/ updateAccountName \/ deleteAccount
  \/ addCategory \/ updateCategory \/ deleteCategory
  \/ updateBudget \/ updateCategoryBudget \/ updateSettings


\* -------------------------------------------------------- Context Switcher
\* `x || d` on a field of stored or remote data: a field may be absent
Field(data, k, d) == IF k \in DOMAIN data THEN data[k] ELSE d

\* lines 216-221 and 249-254: the snapshot fields set from `data`; the settings
\* are merged into the current ones by the functional updater
ApplyData(cur, data) ==
  [transactions |-> Field(data, "transactions", <<>>),
   accounts |-> Field(data, "accounts", INITIAL_ACCOUNTS),
   categories |-> Field(data, "categories", INITIAL_CATEGORIES),
   budget |-> Field(data, "budget", 0),
   category_budgets |-> Field(data, "category_budgets", <<>>),
   settings |-> Spread(cur.settings, Field(data, "settings", <<>>))]

\* Variant: the outgoing snapshot is not written
saveSkipped(st, walletId, snapshot) == st

\* lines 205-209: the closure's snapshot is written under the key of walletId
saveCurrentContextToStorage(st, walletId, snapshot) == [st EXCEPT ![walletId] = snapshot]

\* Variant: a wallet without a stored snapshot starts with the settings in use
loadContextKeepSettings(st, walletId, cur) ==
  IF st[walletId] # NoData THEN ApplyData(cur, st[walletId])
  ELSE IF walletId # NullId THEN [DefaultSnapshot EXCEPT !.settings = cur.settings]
  ELSE [cur EXCEPT !.settings = Spread(DEFAULT_SETTINGS, @)]

\* lines 211-238.  `cur` is the live snapshot the setters act on; the primary
\* keys of lines 230-235 hold it too (persistence effects, lines 108-113).
loadContextFromStorage(st, walletId, cur) ==
  IF st[walletId] # NoData THEN ApplyData(cur, st[walletId])
  ELSE IF walletId # NullId THEN DefaultSnapshot
  ELSE [cur EXCEPT !.settings = Spread(DEFAULT_SETTINGS, @)]

\* history: the context the loaded snapshot came from
LoadedCtx(st, sc, walletId, curCtx) ==
  IF st[walletId] # NoData THEN sc[walletId]
  ELSE IF walletId # NullId THEN walletId
  ELSE curCtx

\* What a handler's closure holds of the render it was created in
Closure ==
  [live |-> live, activeWalletId |-> syncState.activeWalletId,
   isOnline |-> syncState.isOnline, user |-> syncState.user, liveCtx |-> liveCtx]

\* lines 240-261 up to the await, run with the closure `cap`; `rest` are the
\* continuations that remain pending beside the one this call may add
switchWalletBody(cap, walletId, rest) ==
  LET st1 == saveCurrentContextToStorage(store, cap.activeWalletId, cap.live)
      sc1 == [storeCtx EXCEPT ![cap.activeWalletId] = cap.liveCtx]
      ss1 == [syncState EXCEPT !.activeWalletId = walletId, !.unsyncedChanges = FALSE]
      fetch == walletId # NullId /\ cap.isOnline
  IN /\ store' = st1
     /\ storeCtx' = sc1
     /\ liveCtx' = LoadedCtx(st1, sc1, walletId, liveCtx)
     /\ leftSnap' = [leftSnap EXCEPT ![syncState.activeWalletId] = live]
     /\ tasks' = IF fetch THEN rest \cup {[kind |-> "switchFetch", walletId |-> walletId]}
                 ELSE rest
     /\ Render(loadContextFromStorage(st1, walletId, live), ss1, channel, isLoggingOut)

\* switchWallet(walletId) called from the current render
switchWallet ==
  \E walletId \in (wallets \cup {NullId}) \ {syncState.activeWalletId} :
    /\ Cardinality(tasks) < MaxTasks
    /\ switchWalletBody(Closure, walletId, tasks)
    /\ lastOp' = [op |-> "switchWallet", res |-> "ok", from |-> syncState.activeWalletId,
                  to |-> walletId, offline |-> ~syncState.isOnline]
    /\ UNCHANGED << wallets, sessionVersion, isBackingUp, isLoggingOut, remoteBackup,
                    remoteWallet, remoteWallets, now, nTick, nMut, nRemote, nLogout, restoredAt >>

\* lines 247-255: getWalletData returned
switchFetchDone ==
  \E t \in tasks :
    /\ t.kind = "switchFetch"
    /\ syncState.isOnline
    /\ tasks' = tasks \ {t}
    /\ IF remoteWallet[t.walletId] # NoData
       THEN /\ Render(ApplyData(live, remoteWallet[t.walletId].data), syncState, channel,
                      isLoggingOut)
            /\ liveCtx' = t.walletId
            /\ lastOp' = Op("switchFetch", "applied")
       ELSE /\ UNCHANGED << live, syncState, channel, timer, liveCtx >>
            /\ lastOp' = Op("switchFetch", "absent")
    /\ UNCHANGED << wallets, sessionVersion, isBackingUp, isLoggingOut, store, remoteBackup,
                    remoteWallet, remoteWallets, now, nTick, nMut, nRemote, nLogout, restoredAt,
                    storeCtx,
                    leftSnap >>

\* Variant: a failed fetch takes the session back to the personal context
switchFetchFailReverts ==
  \E t \in tasks :
    /\ t.kind = "switchFetch"
    /\ tasks' = tasks \ {t}
    /\ Render(live, [syncState EXCEPT !.activeWalletId = NullId], channel, isLoggingOut)
    /\ lastOp' = Op("switchFetch", "error")
    /\ UNCHANGED << wallets, sessionVersion, isBackingUp, isLoggingOut, store, remoteBackup,
                    remoteWallet, remoteWallets, now, nTick, nMut, nRemote, nLogout,
                    restoredAt, liveCtx, storeCtx, leftSnap >>

\* line 256: getWalletData threw
switchFetchFail ==
  \E t \in tasks :
    /\ t.kind = "switchFetch"
    /\ tasks' = tasks \ {t}
    /\ lastOp' = Op("switchFetch", "error")
    /\ UNCHANGED << live, syncState, wallets, sessionVersion, isBackingUp, isLoggingOut,
                    store, remoteBackup, remoteWallet, remoteWallets, timer, channel, now, nTick,
                    nMut, nRemote, nLogout, restoredAt, liveCtx, storeCtx, leftSnap >>

\* lines 263-266: createWallet up to its await
createWalletStart ==
  /\ syncState.user # NullId
  /\ Cardinality(tasks) < MaxTasks
  /\ tasks' = tasks \cup {[kind |-> "createWallet", cap |-> Closure]}
  /\ lastOp' = Op("createWallet", "started")
  /\ UNCHANGED << live, syncState, wallets, sessionVersion, isBackingUp, isLoggingOut, store,
                  remoteBackup, remoteWallet, remoteWallets, timer, channel, now, nTick, nMut,
                  nRemote, nLogout, restoredAt, liveCtx, storeCtx, leftSnap >>

\* A wallet id the server has never given out
FreshWallets ==
  {w \in Wallets : w \notin remoteWallets /\ w \notin wallets /\ store[w] = NoData
                   /\ remoteWallet[w] = NoData}

\* lines 267-268: the wallet was created; switchWallet runs with the closure of
\* the render createWallet was called in
createWalletDone ==
  \E t \in tasks, w \in FreshWallets :
    /\ t.kind = "createWallet"
    /\ syncState.isOnline
    /\ remoteWallets' = remoteWallets \cup {w}
    /\ wallets' = wallets \cup {w}
    /\ switchWalletBody(t.cap, w, tasks \ {t})
    /\ lastOp' = [op |-> "createWallet", res |-> "ok", from |-> syncState.activeWalletId,
                  to |-> w, offline |-> ~syncState.isOnline]
    /\ UNCHANGED << sessionVersion, isBackingUp, isLoggingOut, remoteBackup, remoteWallet,
                    now, nTick, nMut, nRemote, nLogout, restoredAt >>

\* lines 269-271
createWalletFail ==
  \E t \in tasks :
    /\ t.kind = "createWallet"
    /\ tasks' = tasks \ {t}
    /\ lastOp' = Op("createWallet", "error")
    /\ UNCHANGED << live, syncState, wallets, sessionVersion, isBackingUp, isLoggingOut,
                    store, remoteBackup, remoteWallet, remoteWallets, timer, channel, now, nTick,
                    nMut, nRemote, nLogout, restoredAt, liveCtx, storeCtx, leftSnap >>

\* lines 282-284: deleteWallet up to its await
deleteWalletStart ==
  \E w \in wallets :
    /\ Cardinality(tasks) < MaxTasks
    /\ tasks' = tasks \cup {[kind |-> "deleteWallet", walletId |-> w, cap |-> Closure]}
    /\ lastOp' = Op("deleteWallet", "started")
    /\ UNCHANGED << live, syncState, wallets, sessionVersion, isBackingUp, isLoggingOut,
                    store, remoteBackup, remoteWallet, remoteWallets, timer, channel, now, nTick,
                    nMut, nRemote, nLogout, restoredAt, liveCtx, storeCtx, leftSnap >>

\* lines 285-287: the wallet was deleted; the test of line 286 and switchWallet
\* read the closure of the render deleteWallet was called in
deleteWalletDone ==
  \E t \in tasks :
    /\ t.kind = "deleteWallet"
    /\ syncState.isOnline
    /\ t.walletId \in remoteWallets
    /\ remoteWallets' = remoteWallets \ {t.walletId}
    /\ remoteWallet' = [remoteWallet EXCEPT ![t.walletId] = NoData]
    /\ wallets' = wallets \ {t.walletId}
    /\ IF t.cap.activeWalletId = t.walletId
       THEN /\ switchWalletBody(t.cap, NullId, tasks \ {t})
            /\ lastOp' = [op |-> "deleteWallet", res |-> "switched",
                          from |-> syncState.activeWalletId, to |-> NullId,
                          offline |-> ~syncState.isOnline]
       ELSE /\ tasks' = tasks \ {t}
            /\ lastOp' = Op("deleteWallet", "ok")
            /\ UNCHANGED << live, syncState, channel, timer, store, liveCtx, storeCtx,
                            leftSnap >>
    /\ UNCHANGED << sessionVersion, isBackingUp, isLoggingOut, remoteBackup, now, nTick, nMut,
                    nRemote, nLogout, restoredAt >>

\* lines 288-290
deleteWalletFail ==
  \E t \in tasks :
    /\ t.kind = "deleteWallet"
    /\ tasks' = tasks \ {t}
    /\ lastOp' = Op("deleteWallet", "error")
    /\ UNCHANGED << live, syncState, wallets, sessionVersion, isBackingUp, isLoggingOut,
                    store, remoteBackup, remoteWallet, remoteWallets, timer, channel, now, nTick,
                    nMut, nRemote, nLogout, restoredAt, liveCtx, storeCtx, leftSnap >>


\* ------------------------------------------------------------------- push
PushTasks == {t \in tasks : t.kind = "push"}

\* Variant: no single-flight guard
backupBeginUnguarded(cap, via) ==
  /\ cap.user # NullId
  /\ Cardinality(tasks) < MaxTasks
  /\ isBackingUp' = TRUE
  /\ tasks' = tasks \cup {[kind |-> "push", scope |-> cap.activeWalletId, user |-> cap.user,
                           data |-> cap.live, via |-> via]}
  /\ syncState' = [syncState EXCEPT !.isSyncing = TRUE]
  /\ lastOp' = [op |-> "backup", res |-> "started", via |-> via]

\* lines 385-394 / 398: the guard is taken and the network write is awaited.
\* `cap` is the closure of the render the caller belongs to, `via` the caller.
backupBegin(cap, via) ==
  /\ ~isBackingUp
  /\ cap.user # NullId
  /\ Cardinality(tasks) < MaxTasks
  /\ isBackingUp' = TRUE
  /\ tasks' = tasks \cup {[kind |-> "push", scope |-> cap.activeWalletId, user |-> cap.user,
                           data |-> cap.live, via |-> via]}
  /\ syncState' = [syncState EXCEPT !.isSyncing = TRUE]
  /\ lastOp' = [op |-> "backup", res |-> "started", via |-> via]

\* Variant: the skipped call is queued behind the push in flight
backupQueued ==
  /\ isBackingUp
  /\ Cardinality(tasks) < MaxTasks
  /\ tasks' = tasks \cup {[kind |-> "push", scope |-> syncState.activeWalletId,
                           user |-> syncState.user, data |-> live, via |-> "queue"]}
  /\ lastOp' = [op |-> "backup", res |-> "skipped", via |-> "ui"]
  /\ UNCHANGED << live, syncState, wallets, sessionVersion, isBackingUp, isLoggingOut, store,
                  remoteBackup, remoteWallet, remoteWallets, timer, channel, now, nTick,
                  nMut, nRemote, nLogout, restoredAt, liveCtx, storeCtx, leftSnap >>

\* line 384: a push is in flight
backupSkipped ==
  /\ isBackingUp
  /\ lastOp' = [op |-> "backup", res |-> "skipped", via |-> "ui"]
  /\ UNCHANGED << live, syncState, wallets, sessionVersion, isBackingUp, isLoggingOut, store,
                  remoteBackup, remoteWallet, remoteWallets, tasks, timer, channel, now, nTick,
                  nMut, nRemote, nLogout, restoredAt, liveCtx, storeCtx, leftSnap >>

\* lines 385-389, 405-408: no user; the guard is taken and released at once
backupNoUser ==
  /\ ~isBackingUp
  /\ syncState.user = NullId
  /\ lastOp' = [op |-> "backup", res |-> "skipped", via |-> "ui"]
  /\ UNCHANGED << live, syncState, wallets, sessionVersion, isBackingUp, isLoggingOut, store,
                  remoteBackup, remoteWallet, remoteWallets, tasks, timer, channel, now, nTick,
                  nMut, nRemote, nLogout, restoredAt, liveCtx, storeCtx, leftSnap >>

\* backupUserData() called from the current render
backupStart ==
  /\ backupBegin(Closure, "ui")
  /\ UNCHANGED << live, wallets, sessionVersion, isLoggingOut, store, remoteBackup,
                  remoteWallet, remoteWallets, timer, channel, now, nTick, nMut, nRemote,
                  nLogout, restoredAt,
                  liveCtx, storeCtx, leftSnap >>

\* Variant: the flag is cleared, the timestamp is not taken
pushSucceededNoStamp(ss, stamp) == [ss EXCEPT !.unsyncedChanges = FALSE]

\* lines 395 and 399: the state update of a successful push
pushSucceeded(ss, stamp) == [ss EXCEPT !.unsyncedChanges = FALSE, !.lastSync = Some(stamp)]

\* Variant: the finally block also clears the flag
releaseGuardAndClean(ss) == [ss EXCEPT !.isSyncing = FALSE, !.unsyncedChanges = FALSE]

\* lines 405-408
releaseGuard(ss) == [ss EXCEPT !.isSyncing = FALSE]

\* lines 393-401, 405-408: the network write succeeded.  The wallet row gets the
\* editor's id; the backup envelope gets the server's timestamp, which the
\* client adopts (line 399); the wallet branch takes the client's clock (line 395).
backupDone ==
  \E t \in PushTasks :
    /\ syncState.isOnline
    /\ t.scope # NullId => t.scope \in remoteWallets
    /\ tasks' = tasks \ {t}
    /\ isBackingUp' = FALSE
    /\ IF t.scope # NullId
       THEN /\ remoteWallet' = [remoteWallet EXCEPT ![t.scope] =
                                  [data |-> t.data, updated_by |-> t.user]]
            /\ UNCHANGED remoteBackup
       ELSE /\ remoteBackup' = [data |-> t.data, timestamp |-> now]
            /\ UNCHANGED remoteWallet
    /\ Render(live, releaseGuard(pushSucceeded(syncState, now)), channel, isLoggingOut)
    /\ lastOp' = [op |-> "backup", res |-> "ok", via |-> t.via, scope |-> t.scope]
    /\ UNCHANGED << wallets, sessionVersion, isLoggingOut, store, remoteWallets, now, nTick, nMut,
                    nRemote, nLogout, restoredAt, liveCtx, storeCtx, leftSnap >>

\* Where the error that backupUserData rethrows (line 404) ends.  Of the three
\* calls in checkAutoBackup only the one of the unsyncedChanges branch (line
\* 416) is inside try/catch; from the calls of lines 420 and 425 the error
\* rejects the promise of the timeout callback, which nothing awaits.
ThrownTo(via) ==
  IF via = "timerDirty" THEN "caught"
  ELSE IF via = "timerDue" THEN "unhandled"
  ELSE "caller"

\* lines 402-408: the network write failed; the error is thrown to the caller
backupFail ==
  \E t \in PushTasks :
    /\ tasks' = tasks \ {t}
    /\ isBackingUp' = FALSE
    /\ Render(live, releaseGuard(syncState), channel, isLoggingOut)
    /\ lastOp' = [op |-> "backup", res |-> "error", via |-> t.via, scope |-> t.scope,
                   error |-> ThrownTo(t.via)]
    /\ UNCHANGED << wallets, sessionVersion, isLoggingOut, store, remoteBackup, remoteWallet,
                    remoteWallets, now, nTick, nMut, nRemote, nLogout, restoredAt,
                    liveCtx, storeCtx, leftSnap >>

\* ------------------------------------------------------ auto-backup timer
HoursUnit == 7200      \* clock units of 500 ms in an hour (line 423)

\* Variant: the threshold itself is not yet due
BackupDueStrict(c) ==
  /\ c.live.settings.autoBackup # "off"
  /\ \/ c.lastSync = Null
     \/ LET threshold == IF c.live.settings.autoBackup = "daily" THEN 24 ELSE 168
        IN now - c.lastSync[1] > threshold * HoursUnit

\* lines 419-425, with the values of the render the effect ran in
BackupDue(c) ==
  /\ c.live.settings.autoBackup # "off"
  /\ \/ c.lastSync = Null
     \/ LET threshold == IF c.live.settings.autoBackup = "daily" THEN 24 ELSE 168
        IN now - c.lastSync[1] >= threshold * HoursUnit

\* Variant: the autoBackup setting is tested before the unsynced changes
TimerVerdictOffFirst(c) ==
  IF ~c.isLoggedIn \/ c.user = NullId \/ ~c.isOnline \/ isLoggingOut THEN "idle"
  ELSE IF isBackingUp THEN "busy"
  ELSE IF c.live.settings.autoBackup = "off" THEN "notDue"
  ELSE IF c.unsyncedChanges THEN "timerDirty"
  ELSE IF BackupDue(c) THEN "timerDue"
  ELSE "notDue"

\* Variant: the logout in progress is not looked at
TimerVerdictDuringLogout(c) ==
  IF ~c.isLoggedIn \/ c.user = NullId \/ ~c.isOnline THEN "idle"
  ELSE IF isBackingUp THEN "busy"
  ELSE IF c.unsyncedChanges THEN "timerDirty"
  ELSE IF BackupDue(c) THEN "timerDue"
  ELSE "notDue"

\* lines 413-418, 420, 425: does checkAutoBackup call backupUserData, and where
TimerVerdict(c) ==
  IF ~c.isLoggedIn \/ c.user = NullId \/ ~c.isOnline \/ isLoggingOut THEN "idle"
  ELSE IF isBackingUp THEN "busy"
  ELSE IF c.unsyncedChanges THEN "timerDirty"
  ELSE IF BackupDue(c) THEN "timerDue"
  ELSE "notDue"

\* line 427: the timeout fires and checkAutoBackup runs in its render's closure
timerFire ==
  /\ timer.armed
  /\ timer' = NoTimer
  /\ LET v == TimerVerdict(timer)
     IN IF v \in {"timerDirty", "timerDue"}
        THEN backupBegin(timer, v)
        ELSE /\ lastOp' = Op("timer", v)
             /\ UNCHANGED << syncState, isBackingUp, tasks >>
  /\ UNCHANGED << live, wallets, sessionVersion, isLoggingOut, store, remoteBackup,
                  remoteWallet, remoteWallets, channel, now, nTick, nMut, nRemote,
                  nLogout, restoredAt,
                  liveCtx, storeCtx, leftSnap >>


\* ---------------------------------------------------------------- restore
\* line 471: Array.prototype.sort is stable; descending by date
RECURSIVE InsertDesc(_, _)
InsertDesc(sorted, t) ==
  IF sorted = <<>> THEN <<t>>
  ELSE IF Head(sorted).date >= t.date THEN <<Head(sorted)>> \o InsertDesc(Tail(sorted), t)
  ELSE <<t>> \o sorted

RECURSIVE SortDesc(_)
SortDesc(s) == IF s = <<>> THEN <<>> ELSE InsertDesc(SortDesc(SubSeq(s, 1, Len(s) - 1)), s[Len(s)])

\* Map.set(t.id, t) for each entry in order: the first occurrence of an id fixes
\* its place, the last one its value
RECURSIVE MapOf(_, _)
MapOf(m, s) ==
  IF s = <<>> THEN m
  ELSE LET t == Head(s)
           hit == {i \in DOMAIN m : m[i].id = t.id}
       IN MapOf(IF hit = {} THEN Append(m, t) ELSE [i \in DOMAIN m |-> IF i \in hit THEN t ELSE m[i]],
                Tail(s))

\* Variant: the local entry wins an id collision
mergeTransactionsLocalWins(cloudTxs, prevTxs) ==
  SortDesc(MapOf(MapOf(<<>>, cloudTxs), prevTxs))

\* lines 467-472
mergeTransactions(cloudTxs, prevTxs) ==
  LET txMap == MapOf(<<>>, cloudTxs)
      ids == {t.id : t \in Range(txMap)}
      localOnly == SeqFilter(prevTxs, {t \in Range(prevTxs) : t.id \notin ids})
  IN SortDesc(MapOf(txMap, localOnly))

\* lines 446 and 539: `metadata?.timestamp` of a backup envelope; an envelope
\* may come without one
cloudStamp(row) == IF "timestamp" \in DOMAIN row THEN Some(row.timestamp) ELSE Null

\* Variant: a field absent from the remote copy keeps its local value
restoreApplyKeepLocal(strat, cur, remoteData) ==
  LET kept == [k \in DOMAIN cur |-> Field(remoteData, k, cur[k])]
  IN IF strat = "replace" THEN kept
     ELSE [kept EXCEPT !.transactions =
                          mergeTransactions(Field(remoteData, "transactions", <<>>),
                                            cur.transactions),
                       !.settings = Spread(cur.settings, kept.settings)]

\* Variant: merge keeps the local accounts and categories the remote copy lacks
restoreApplyUnion(strat, cur, remoteData) ==
  LET cloudTxs == Field(remoteData, "transactions", <<>>)
      cloudAccounts == Field(remoteData, "accounts", INITIAL_ACCOUNTS)
      cloudCats == Field(remoteData, "categories", INITIAL_CATEGORIES)
      cloudBudget == Field(remoteData, "budget", 0)
      cloudSettings == Field(remoteData, "settings", DEFAULT_SETTINGS)
      cloudCatBudgets == Field(remoteData, "category_budgets", <<>>)
      Union(cloud, local) ==
        cloud \o SeqFilter(local, {x \in Range(local) : x.id \notin {c.id : c \in Range(cloud)}})
  IN IF strat = "replace"
     THEN [transactions |-> cloudTxs, accounts |-> cloudAccounts, categories |-> cloudCats,
           budget |-> cloudBudget, category_budgets |-> cloudCatBudgets,
           settings |-> cloudSettings]
     ELSE [transactions |-> mergeTransactions(cloudTxs, cur.transactions),
           accounts |-> Union(cloudAccounts, cur.accounts),
           categories |-> Union(cloudCats, cur.categories), budget |-> cloudBudget,
           category_budgets |-> cloudCatBudgets,
           settings |-> Spread(cur.settings, cloudSettings)]

\* lines 452-480: the snapshot after the chosen strategy
restoreApply(strat, cur, remoteData) ==
  LET cloudTxs == Field(remoteData, "transactions", <<>>)
      cloudAccounts == Field(remoteData, "accounts", INITIAL_ACCOUNTS)
      cloudCats == Field(remoteData, "categories", INITIAL_CATEGORIES)
      cloudBudget == Field(remoteData, "budget", 0)
      cloudSettings == Field(remoteData, "settings", DEFAULT_SETTINGS)
      cloudCatBudgets == Field(remoteData, "category_budgets", <<>>)
  IN IF strat = "replace"
     THEN [transactions |-> cloudTxs, accounts |-> cloudAccounts, categories |-> cloudCats,
           budget |-> cloudBudget, category_budgets |-> cloudCatBudgets,
           settings |-> cloudSettings]
     ELSE [transactions |-> mergeTransactions(cloudTxs, cur.transactions),
           accounts |-> cloudAccounts, categories |-> cloudCats, budget |-> cloudBudget,
           category_budgets |-> cloudCatBudgets,
           settings |-> Spread(cur.settings, cloudSettings)]

\* line 432
restoreNoUser ==
  /\ syncState.user = NullId
  /\ \E strat \in {"skip", "replace", "merge"} :
       lastOp' = [op |-> "restore", res |-> "false", strat |-> strat]
  /\ UNCHANGED << live, syncState, wallets, sessionVersion, isBackingUp, isLoggingOut, store,
                  remoteBackup, remoteWallet, remoteWallets, tasks, timer, channel, now, nTick,
                  nMut, nRemote, nLogout, restoredAt, liveCtx, storeCtx, leftSnap >>

\* line 433
restoreSkip ==
  /\ syncState.user # NullId
  /\ Render(live, [syncState EXCEPT !.pendingRestoreAvailable = FALSE], channel, isLoggingOut)
  /\ lastOp' = [op |-> "restore", res |-> "true", strat |-> "skip"]
  /\ UNCHANGED << wallets, sessionVersion, isBackingUp, isLoggingOut, store, remoteBackup,
                  remoteWallet, remoteWallets, tasks, now, nTick, nMut, nRemote,
                  nLogout, restoredAt,
                  liveCtx,
                  storeCtx, leftSnap >>

\* lines 435-443: restoreBackup('replace' | 'merge') up to its await
restoreStart ==
  \E strat \in {"replace", "merge"} :
    /\ syncState.user # NullId
    /\ Cardinality(tasks) < MaxTasks
    /\ tasks' = tasks \cup {[kind |-> "restore", strat |-> strat,
                             scope |-> syncState.activeWalletId, user |-> syncState.user]}
    /\ lastOp' = [op |-> "restore", res |-> "started", strat |-> strat]
    /\ UNCHANGED << live, syncState, wallets, sessionVersion, isBackingUp, isLoggingOut,
                    store, remoteBackup, remoteWallet, remoteWallets, timer, channel, now, nTick,
                    nMut, nRemote, nLogout, restoredAt, liveCtx, storeCtx, leftSnap >>

\* lines 439-489: the fetch returned
restoreDone ==
  \E t \in tasks :
    /\ t.kind = "restore"
    /\ syncState.isOnline
    /\ tasks' = tasks \ {t}
    /\ LET row == IF t.scope # NullId THEN remoteWallet[t.scope] ELSE remoteBackup
           remoteTimestamp == IF t.scope # NullId THEN Some(now) ELSE cloudStamp(row)
       IN IF row = NoData
          THEN /\ lastOp' = [op |-> "restore", res |-> "false", strat |-> t.strat]
               /\ UNCHANGED << live, syncState, channel, timer, liveCtx, restoredAt >>
          ELSE /\ Render(restoreApply(t.strat, live, row.data),
                         [syncState EXCEPT !.pendingRestoreAvailable = FALSE,
                                           !.lastSync = IF remoteTimestamp # Null
                                                        THEN remoteTimestamp ELSE @],
                         channel, isLoggingOut)
               /\ liveCtx' = t.scope
               /\ restoredAt' = sessionVersion + nLogout
               /\ lastOp' = [op |-> "restore", res |-> "true", strat |-> t.strat]
    /\ UNCHANGED << wallets, sessionVersion, isBackingUp, isLoggingOut, store, remoteBackup,
                    remoteWallet, remoteWallets, now, nTick, nMut, nRemote, nLogout, storeCtx,
                    leftSnap >>

\* Variant: a failed fetch dismisses the prompt all the same
restoreFailDismisses ==
  \E t \in tasks :
    /\ t.kind = "restore"
    /\ tasks' = tasks \ {t}
    /\ Render(live, [syncState EXCEPT !.pendingRestoreAvailable = FALSE], channel, isLoggingOut)
    /\ lastOp' = [op |-> "restore", res |-> "false", strat |-> t.strat]
    /\ UNCHANGED << wallets, sessionVersion, isBackingUp, isLoggingOut, store, remoteBackup,
                    remoteWallet, remoteWallets, now, nTick, nMut, nRemote, nLogout,
                    restoredAt, liveCtx, storeCtx, leftSnap >>

\* lines 490-493
restoreFail ==
  \E t \in tasks :
    /\ t.kind = "restore"
    /\ tasks' = tasks \ {t}
    /\ lastOp' = [op |-> "restore", res |-> "false", strat |-> t.strat]
    /\ UNCHANGED << live, syncState, wallets, sessionVersion, isBackingUp, isLoggingOut,
                    store, remoteBackup, remoteWallet, remoteWallets, timer, channel, now, nTick,
                    nMut, nRemote, nLogout, restoredAt, liveCtx, storeCtx, leftSnap >>


\* ----------------------------------------------------------- auth handler
\* history: login and logout transitions begun so far
Transitions == sessionVersion + nLogout

\* lines 503-511 and 589-597: the same update in both places
signedOut(ss) ==
  [ss EXCEPT !.isLoggedIn = FALSE, !.user = NullId, !.isRealtimeConnected = FALSE,
             !.unsyncedChanges = FALSE, !.activeWalletId = NullId, !.lastSync = Null]

\* Variant: the reconciliation fetch is made whatever the active context
AuthBackupTaskAlways(version, born, ss) ==
  {[kind |-> "authBackup", version |-> version, born |-> born]}

\* line 532: the reconciliation fetch is made only with no active wallet in
\* Local Store (the persisted activeWalletId, line 118)
AuthBackupTask(version, born, ss) ==
  IF ss.activeWalletId = NullId
  THEN {[kind |-> "authBackup", version |-> version, born |-> born]}
  ELSE {}

\* line 498: the callback is dropped during logout
authIgnored ==
  /\ isLoggingOut
  /\ lastOp' = Op("auth", "ignored")
  /\ UNCHANGED << live, syncState, wallets, sessionVersion, isBackingUp, isLoggingOut, store,
                  remoteBackup, remoteWallet, remoteWallets, tasks, timer, channel, now, nTick,
                  nMut, nRemote, nLogout, restoredAt, liveCtx, storeCtx, leftSnap >>

\* lines 500-514: handleAuthStateChange(null)
authSignedOut ==
  /\ ~isLoggingOut
  /\ Transitions < MaxSession
  /\ sessionVersion' = sessionVersion + 1
  /\ wallets' = {}
  /\ Render(live, signedOut(syncState), channel, isLoggingOut)
  /\ lastOp' = Op("signOut", "ok")
  /\ UNCHANGED << isBackingUp, isLoggingOut, store, remoteBackup, remoteWallet,
                  remoteWallets, tasks, now, nTick, nMut, nRemote, nLogout, restoredAt,
                  liveCtx, storeCtx,
                  leftSnap >>

\* lines 500, 516-526 / 532-535: handleAuthStateChange(user) up to its first await
authSignedIn ==
  /\ ~isLoggingOut
  /\ Transitions < MaxSession
  /\ Cardinality(tasks) < MaxTasks
  /\ sessionVersion' = sessionVersion + 1
  /\ tasks' = tasks \cup
       (IF syncState.isOnline
        THEN {[kind |-> "authWallets", version |-> sessionVersion + 1, born |-> Transitions + 1]}
        ELSE AuthBackupTask(sessionVersion + 1, Transitions + 1, syncState))
  /\ Render(live, [syncState EXCEPT !.isLoggedIn = TRUE, !.user = Me], channel, isLoggingOut)
  /\ lastOp' = Op("signIn", "ok")
  /\ UNCHANGED << wallets, isBackingUp, isLoggingOut, store, remoteBackup, remoteWallet,
                  remoteWallets, now, nTick, nMut, nRemote, nLogout, restoredAt,
                  liveCtx, storeCtx, leftSnap >>

\* lines 526-528, 532-535: getMyWallets returned
authWalletsDone ==
  \E t \in tasks :
    /\ t.kind = "authWallets"
    /\ syncState.isOnline
    /\ IF t.version # sessionVersion
       THEN /\ tasks' = tasks \ {t}
            /\ lastOp' = [op |-> "authWallets", res |-> "discarded", born |-> t.born]
            /\ UNCHANGED wallets
       ELSE /\ tasks' = (tasks \ {t}) \cup AuthBackupTask(t.version, t.born, syncState)
            /\ lastOp' = [op |-> "authWallets", res |-> "ok", born |-> t.born]
            /\ wallets' = remoteWallets
    /\ UNCHANGED << live, syncState, sessionVersion, isBackingUp, isLoggingOut, store,
                    remoteBackup, remoteWallet, remoteWallets, timer, channel, now, nTick, nMut,
                    nRemote, nLogout, restoredAt, liveCtx, storeCtx, leftSnap >>

\* lines 529, 532-535: getMyWallets threw; the handler goes on to line 532
authWalletsFail ==
  \E t \in tasks :
    /\ t.kind = "authWallets"
    /\ tasks' = (tasks \ {t}) \cup AuthBackupTask(t.version, t.born, syncState)
    /\ lastOp' = [op |-> "authWallets", res |-> "error", born |-> t.born]
    /\ UNCHANGED << live, syncState, wallets, sessionVersion, isBackingUp, isLoggingOut,
                    store, remoteBackup, remoteWallet, remoteWallets, timer, channel, now, nTick,
                    nMut, nRemote, nLogout, restoredAt, liveCtx, storeCtx, leftSnap >>

\* Variant: the grace window is counted in
isNewerInclusive(localLastSync, cloudTimestamp) ==
  \/ localLastSync = Null
  \/ cloudTimestamp # Null /\ cloudTimestamp[1] >= localLastSync[1] + GraceWindow

\* line 544; localLastSync is the persisted lastSync (line 126)
isNewer(localLastSync, cloudTimestamp) ==
  \/ localLastSync = Null
  \/ cloudTimestamp # Null /\ cloudTimestamp[1] > localLastSync[1] + GraceWindow

\* Variant: the prompt is raised without moving the sync pointer
reconcileKeepStamp(ss, cloudTimestamp) ==
  [ss EXCEPT !.pendingRestoreAvailable = isNewer(ss.lastSync, cloudTimestamp)]

\* lines 546-551: both branches set lastSync to `cloudTimestamp || null`
reconcile(ss, cloudTimestamp) ==
  [ss EXCEPT !.lastSync = cloudTimestamp,
             !.pendingRestoreAvailable = isNewer(ss.lastSync, cloudTimestamp)]

\* lines 536-552: the backup envelope was fetched
authBackupDone ==
  \E t \in tasks :
    /\ t.kind = "authBackup"
    /\ syncState.isOnline
    /\ tasks' = tasks \ {t}
    /\ IF t.version # sessionVersion
       THEN /\ lastOp' = [op |-> "authBackup", res |-> "discarded", born |-> t.born]
            /\ UNCHANGED << live, syncState, channel, timer >>
       ELSE IF remoteBackup = NoData
       THEN /\ lastOp' = [op |-> "authBackup", res |-> "absent", born |-> t.born]
            /\ UNCHANGED << live, syncState, channel, timer >>
       ELSE /\ lastOp' = [op |-> "authBackup", res |-> "ok", born |-> t.born,
                          local |-> syncState.lastSync, cloud |-> cloudStamp(remoteBackup)]
            /\ Render(live, reconcile(syncState, cloudStamp(remoteBackup)), channel,
                      isLoggingOut)
    /\ UNCHANGED << wallets, sessionVersion, isBackingUp, isLoggingOut, store, remoteBackup,
                    remoteWallet, remoteWallets, now, nTick, nMut, nRemote, nLogout, restoredAt,
                    liveCtx,
                    storeCtx, leftSnap >>

\* line 553
authBackupFail ==
  \E t \in tasks :
    /\ t.kind = "authBackup"
    /\ tasks' = tasks \ {t}
    /\ lastOp' = [op |-> "authBackup", res |-> "error", born |-> t.born]
    /\ UNCHANGED << live, syncState, wallets, sessionVersion, isBackingUp, isLoggingOut,
                    store, remoteBackup, remoteWallet, remoteWallets, timer, channel, now, nTick,
                    nMut, nRemote, nLogout, restoredAt, liveCtx, storeCtx, leftSnap >>

\* ----------------------------------------------------------------- logout
\* line 573
logoutIgnored ==
  /\ isLoggingOut
  /\ lastOp' = Op("logout", "ignored")
  /\ UNCHANGED << live, syncState, wallets, sessionVersion, isBackingUp, isLoggingOut, store,
                  remoteBackup, remoteWallet, remoteWallets, tasks, timer, channel, now, nTick,
                  nMut, nRemote, nLogout, restoredAt, liveCtx, storeCtx, leftSnap >>

\* lines 574-585: logout() up to its await.  removeAllChannels closes the
\* subscription; the effect's cleanup has not run.
logoutStart ==
  /\ ~isLoggingOut
  /\ Transitions < MaxSession
  /\ Cardinality(tasks) < MaxTasks
  /\ isLoggingOut' = TRUE
  /\ nLogout' = nLogout + 1
  /\ UNCHANGED restoredAt
  /\ tasks' = tasks \cup {[kind |-> "logout"]}
  /\ IF syncState.activeWalletId # NullId
     THEN LET st1 == saveCurrentContextToStorage(store, syncState.activeWalletId, live)
              sc1 == [storeCtx EXCEPT ![syncState.activeWalletId] = liveCtx]
          IN /\ store' = st1
             /\ storeCtx' = sc1
             /\ liveCtx' = LoadedCtx(st1, sc1, NullId, liveCtx)
             /\ Render(loadContextFromStorage(st1, NullId, live), syncState, NoChannel, TRUE)
     ELSE /\ Render(live, syncState, NoChannel, TRUE)
          /\ UNCHANGED << store, storeCtx, liveCtx >>
  /\ lastOp' = Op("logout", "started")
  /\ UNCHANGED << wallets, sessionVersion, isBackingUp, remoteBackup, remoteWallet,
                  remoteWallets, now, nTick, nMut, nRemote, leftSnap >>

\* lines 586-602: signOut returned or threw (line 586 swallows the error)
logoutDone ==
  \E t \in tasks, outcome \in {"ok", "error"} :
    /\ t.kind = "logout"
    /\ outcome = "ok" => syncState.isOnline
    /\ tasks' = tasks \ {t}
    /\ isLoggingOut' = FALSE
    /\ wallets' = {}
    /\ Render(live, signedOut(syncState), channel, FALSE)
    /\ lastOp' = Op("logoutDone", outcome)
    /\ UNCHANGED << sessionVersion, isBackingUp, store, remoteBackup, remoteWallet,
                    remoteWallets, now, nTick, nMut, nRemote, nLogout, restoredAt,
                    liveCtx, storeCtx, leftSnap >>

\* ------------------------------------------------------- realtime listener
\* lines 177-179 and 193-195: the subscription is confirmed
subscribed ==
  /\ channel.open
  /\ ~channel.subscribed
  /\ syncState.isOnline
  /\ channel' = [channel EXCEPT !.subscribed = TRUE]
  /\ syncState' = [syncState EXCEPT !.isRealtimeConnected = TRUE]
  /\ lastOp' = Op("subscribed", "ok")
  /\ UNCHANGED << live, wallets, sessionVersion, isBackingUp, isLoggingOut, store,
                  remoteBackup, remoteWallet, remoteWallets, tasks, timer, now, nTick, nMut,
                  nRemote, nLogout, restoredAt, liveCtx, storeCtx, leftSnap >>

RealtimeBuffer == 4    \* 2000 ms (line 188)

\* Variant: the change of another member is applied to the snapshot
walletEventApplied ==
  /\ channel.open
  /\ channel.subscribed
  /\ channel.scope # NullId
  /\ remoteWallet[channel.scope] # NoData
  /\ IF remoteWallet[channel.scope].updated_by # channel.user
     THEN /\ Render(ApplyData(live, remoteWallet[channel.scope].data), syncState, channel,
                    isLoggingOut)
          /\ lastOp' = Op("walletEvent", "signal")
     ELSE /\ UNCHANGED << live, syncState, channel, timer >>
          /\ lastOp' = Op("walletEvent", "own")
  /\ UNCHANGED << wallets, sessionVersion, isBackingUp, isLoggingOut, store,
                  remoteBackup, remoteWallet, remoteWallets, tasks, now, nTick,
                  nMut, nRemote, nLogout, restoredAt, liveCtx, storeCtx, leftSnap >>

\* lines 170-176: a change of the wallet row is pushed to the wallet channel
walletEvent ==
  /\ channel.open
  /\ channel.subscribed
  /\ channel.scope # NullId
  /\ remoteWallet[channel.scope] # NoData
  /\ IF remoteWallet[channel.scope].updated_by # channel.user
     THEN /\ syncState' = [syncState EXCEPT !.pendingRestoreAvailable = TRUE]
          /\ lastOp' = Op("walletEvent", "signal")
     ELSE /\ UNCHANGED syncState
          /\ lastOp' = Op("walletEvent", "own")
  /\ UNCHANGED << live, wallets, sessionVersion, isBackingUp, isLoggingOut, store,
                  remoteBackup, remoteWallet, remoteWallets, tasks, timer, channel, now, nTick,
                  nMut, nRemote, nLogout, restoredAt, liveCtx, storeCtx, leftSnap >>

\* lines 183-191: a change of the backup row is pushed to the user channel
backupEvent ==
  /\ channel.open
  /\ channel.subscribed
  /\ channel.scope = NullId
  /\ remoteBackup # NoData
  /\ LET remoteTime == IF "timestamp" \in DOMAIN remoteBackup THEN remoteBackup.timestamp
                       ELSE now
         \* localTime is 0, the epoch, without a lastSync: every date is later
         newer == \/ channel.lastSync = Null
                  \/ remoteTime > channel.lastSync[1] + RealtimeBuffer
     IN lastOp' = Op("backupEvent", IF newer THEN "signal" ELSE "none")
  /\ UNCHANGED << live, syncState, wallets, sessionVersion, isBackingUp, isLoggingOut, store,
                  remoteBackup, remoteWallet, remoteWallets, tasks, timer, channel, now, nTick,
                  nMut, nRemote, nLogout, restoredAt, liveCtx, storeCtx, leftSnap >>

\* ------------------------------------------------------------- environment
\* line 131
handleOnline ==
  /\ ~syncState.isOnline
  /\ Render(live, [syncState EXCEPT !.isOnline = TRUE], channel, isLoggingOut)
  /\ lastOp' = Op("online", "ok")
  /\ UNCHANGED << wallets, sessionVersion, isBackingUp, isLoggingOut, store, remoteBackup,
                  remoteWallet, remoteWallets, tasks, now, nTick, nMut, nRemote,
                  nLogout, restoredAt,
                  liveCtx,
                  storeCtx, leftSnap >>

\* Variant: going offline leaves the connected flag alone
handleOfflineStillConnected ==
  /\ syncState.isOnline
  /\ Render(live, [syncState EXCEPT !.isOnline = FALSE], channel, isLoggingOut)
  /\ lastOp' = Op("offline", "ok")
  /\ UNCHANGED << wallets, sessionVersion, isBackingUp, isLoggingOut, store, remoteBackup,
                  remoteWallet, remoteWallets, tasks, now, nTick, nMut, nRemote, nLogout,
                  restoredAt, liveCtx, storeCtx, leftSnap >>

\* line 132
handleOffline ==
  /\ syncState.isOnline
  /\ Render(live, [syncState EXCEPT !.isOnline = FALSE, !.isRealtimeConnected = FALSE],
            channel, isLoggingOut)
  /\ lastOp' = Op("offline", "ok")
  /\ UNCHANGED << wallets, sessionVersion, isBackingUp, isLoggingOut, store, remoteBackup,
                  remoteWallet, remoteWallets, tasks, now, nTick, nMut, nRemote,
                  nLogout, restoredAt,
                  liveCtx,
                  storeCtx, leftSnap >>

\* The clock advances: by 500 ms, or by 30 hours
TickSteps == {1, 30 * HoursUnit}

tick ==
  \E d \in TickSteps :
  /\ nTick < MaxTicks
  /\ nTick' = nTick + 1
  /\ now' = now + d
  /\ lastOp' = Op("tick", "ok")
  /\ UNCHANGED << live, syncState, wallets, sessionVersion, isBackingUp, isLoggingOut, store,
                  remoteBackup, remoteWallet, remoteWallets, tasks, timer, channel, nMut,
                  nRemote, nLogout, restoredAt, liveCtx, storeCtx, leftSnap >>

\* What another device writes: the row it read, one transaction edited (same
\* id, new amount) and one added
OtherEdit(base) ==
  LET txs == base.transactions
      edited == [i \in DOMAIN txs |-> IF i = 1 THEN [txs[i] EXCEPT !.amount = 9] ELSE txs[i]]
  IN [base EXCEPT !.transactions =
        <<WithId([date |-> 2, amount |-> 3, type |-> "expense", note |-> "", accountId |-> 1,
                  fromAccountId |-> NoRef, toAccountId |-> NoRef, categoryId |-> NoRef],
                 100, FALSE)>> \o edited]

\* Another member writes the row of a shared wallet
otherWalletWrite ==
  \E w \in remoteWallets :
    /\ nRemote < MaxRemote
    /\ nRemote' = nRemote + 1
    /\ remoteWallet' = [remoteWallet EXCEPT ![w] =
          [data |-> OtherEdit(IF remoteWallet[w] = NoData THEN DefaultSnapshot
                              ELSE remoteWallet[w].data),
           updated_by |-> Other]]
    /\ lastOp' = Op("otherWalletWrite", "ok")
    /\ UNCHANGED << live, syncState, wallets, sessionVersion, isBackingUp, isLoggingOut,
                    store, remoteBackup, remoteWallets, tasks, timer, channel, now, nTick, nMut,
                    nLogout, restoredAt, liveCtx, storeCtx, leftSnap >>

\* Another device of the same user pushes its backup
otherBackupWrite ==
  /\ nRemote < MaxRemote
  /\ nRemote' = nRemote + 1
  /\ remoteBackup' =
        [data |-> OtherEdit(IF remoteBackup = NoData THEN DefaultSnapshot ELSE remoteBackup.data),
         timestamp |-> now, device |-> Other]
  /\ lastOp' = Op("otherBackupWrite", "ok")
  /\ UNCHANGED << live, syncState, wallets, sessionVersion, isBackingUp, isLoggingOut, store,
                  remoteWallet, remoteWallets, tasks, timer, channel, now, nTick, nMut,
                  nLogout, restoredAt,
                  liveCtx, storeCtx, leftSnap >>

\* ---------------------------------------------------------- specifications
Push == backupStart \/ backupSkipped \/ backupNoUser \/ backupDone \/ backupFail \/ timerFire
Switch ==
  \/ switchWallet \/ switchFetchDone \/ switchFetchFail
  \/ createWalletStart \/ createWalletDone \/ createWalletFail
  \/ deleteWalletStart \/ deleteWalletDone \/ deleteWalletFail
Restore == restoreNoUser \/ restoreSkip \/ restoreStart \/ restoreDone \/ restoreFail
Login ==
  \/ authIgnored \/ authSignedIn
  \/ authWalletsDone \/ authWalletsFail \/ authBackupDone \/ authBackupFail
Logout == authSignedOut \/ logoutIgnored \/ logoutStart \/ logoutDone
Realtime == subscribed \/ walletEvent \/ backupEvent
Environment == handleOnline \/ handleOffline \/ tick \/ otherWalletWrite \/ otherBackupWrite

Next == Mutation \/ Push \/ Switch \/ Restore \/ Login \/ Logout \/ Realtime \/ Environment

\* The whole program from a fresh install
Spec == Init /\ [][Next]_vars

\* The state once the user has signed in and the login continuations have
\* returned (no remote backup yet), in the personal context or after a switch
\* to the shared wallet: reached from Init by authSignedIn, authWalletsDone,
\* authBackupDone, switchWallet, switchFetchDone
SteadySyncState(ctx) ==
  [InitSyncState EXCEPT !.isLoggedIn = TRUE, !.user = Me, !.activeWalletId = ctx]

\* A signed-in session at rest in context ctx with the snapshot snap; with a
\* timestamp in lastSync, snap is what the last push wrote to the server
InitSteady(ws, ctx, snap, lastSync) ==
  LET ss == [SteadySyncState(ctx) EXCEPT !.lastSync = lastSync]
      personal == IF ctx # NullId THEN DefaultSnapshot ELSE NoData
  IN /\ live = snap
     /\ syncState = ss
     /\ wallets = ws
     /\ sessionVersion = 1
     /\ isBackingUp = FALSE
     /\ isLoggingOut = FALSE
     /\ store = [c \in Contexts |-> IF c = NullId THEN personal ELSE NoData]
     /\ remoteBackup = IF ctx = NullId /\ lastSync # Null
                       THEN [data |-> snap, timestamp |-> lastSync[1]] ELSE NoData
     /\ remoteWallet = [w \in Wallets |-> IF w = ctx /\ lastSync # Null
                                           THEN [data |-> snap, updated_by |-> Me]
                                           ELSE NoData]
     /\ remoteWallets = ws
     /\ tasks = {}
     /\ timer = Capture(snap, ss)
     /\ channel = Subscribe(snap, ss, FALSE)
     /\ now = 1
     /\ nMut = 0
     /\ nTick = 0
     /\ nRemote = 0
     /\ nLogout = 0
     /\ restoredAt = 0
     /\ liveCtx = ctx
     /\ storeCtx = [c \in Contexts |-> NullId]
     /\ leftSnap = [c \in Contexts |-> IF c = NullId THEN personal ELSE NoData]
     /\ lastOp = [op |-> "init", res |-> "ok"]

InitSignedInAt(ws, ctx) == InitSteady(ws, ctx, DefaultSnapshot, Null)

InitSignedIn == \E ctx \in {NullId, "w1"} : InitSignedInAt({"w1"}, ctx)

\* The snapshot after addTransaction of the expense of TxInputs in an earlier
\* run of the program (its id is none of those given out later)
PushedSnapshot == addTransactionOp(DefaultSnapshot, CHOOSE d \in TxInputs : d.type = "expense", 9)

\* Signed in, either untouched or after one transaction was added and pushed
InitEdit ==
  \E ctx \in {NullId, "w1"} :
     \/ InitSteady({"w1"}, ctx, DefaultSnapshot, Null)
     \/ InitSteady({"w1"}, ctx, PushedSnapshot, Some(1))

\* Editing and pushing in a signed-in session: the 13 mutating operations, push
\* from the UI and from the auto-backup timer, the clock
NextEdit ==
  \/ Mutation \/ backupStart \/ backupSkipped \/ backupDone \/ backupFail \/ timerFire
  \/ tick
SpecEdit == InitEdit /\ [][NextEdit]_vars

\* The edits used where the kind of edit does not matter
SomeMutation == addTransaction \/ updateBudget \/ updateSettings

\* Context switching in a signed-in session that stays online: switchWallet,
\* createWallet and deleteWallet with their continuations, and edits
NextContext == SomeMutation \/ Switch
SpecContext == InitSignedIn /\ [][NextContext]_vars

\* Sequences of switchWallet calls between the personal context and two
\* wallets, online and offline, with edits and remote writes in between
InitTwoWallets == InitSignedInAt(Wallets, NullId)
NextRoundTrip ==
  \/ SomeMutation \/ switchWallet \/ switchFetchDone \/ switchFetchFail
  \/ handleOnline \/ handleOffline \/ otherWalletWrite
SpecRoundTrip == InitTwoWallets /\ [][NextRoundTrip]_vars

\* Login, logout and their continuations from a fresh install
NextSession ==
  \/ Login \/ Logout \/ backupNoUser
  \/ switchWallet \/ switchFetchDone \/ switchFetchFail
  \/ handleOnline \/ handleOffline \/ otherBackupWrite \/ tick
SpecSession == Init /\ [][NextSession]_vars


\* The time of the last push of an earlier run of the program, and the clock
\* at the start of this run
LastPushTime == 10
RestartTime == 20

\* Local snapshots an earlier run left in Local Store: untouched; one pushed
\* transaction; and, on top of it, a local-only transaction, a budget, a
\* category budget and a changed setting
LocalEdited ==
  updateSettingsOp(
    updateCategoryBudgetOp(
      updateBudgetOp(
        addTransactionOp(PushedSnapshot, CHOOSE d \in TxInputs : d.type = "transfer", 8),
        5),
      1, 5),
    [autoBackup |-> "daily"])
LocalSnapshots == {DefaultSnapshot, PushedSnapshot, LocalEdited}

\* Switching between the personal context, which holds local edits, and one
\* shared wallet that Local Store has no snapshot of, online and offline,
\* while another member may write the wallet's row
InitSwitch == InitSteady({"w1"}, NullId, LocalEdited, Some(1))
NextSwitch ==
  \/ switchWallet \/ switchFetchDone \/ switchFetchFail
  \/ handleOnline \/ handleOffline \/ otherWalletWrite \/ updateBudget
SpecSwitch == InitSwitch /\ [][NextSwitch]_vars

\* The same with restoreBackup('replace' | 'merge') and its fetch
NextSwitchRestore == NextSwitch \/ restoreStart \/ restoreDone \/ restoreFail
SpecSwitchRestore == InitSwitch /\ [][NextSwitchRestore]_vars

\* A ledger with three accounts: the two transactions of LocalEdited (an
\* expense on account 1 in category 1, a transfer from 1 to 2), and two that a
\* restore brought in without a pending mark: an expense on account 2 and a
\* transfer from account 3 to account 1
LedgerSnapshot ==
  [LocalEdited EXCEPT
     !.accounts = @ \o << [id |-> 3, name |-> "card"] >>,
     !.transactions = @ \o
        << WithId([date |-> 1, amount |-> 2, type |-> "expense", note |-> "", accountId |-> 2,
                   fromAccountId |-> NoRef, toAccountId |-> NoRef, categoryId |-> NoRef],
                  70, FALSE),
           WithId([date |-> 1, amount |-> 3, type |-> "transfer", note |-> "",
                   accountId |-> NoRef, fromAccountId |-> 3, toAccountId |-> 1,
                   categoryId |-> NoRef],
                  60, FALSE) >>]

\* Signed in at rest with a ledger that was pushed
InitLedger == \E ctx \in {NullId, "w1"} : InitSteady({"w1"}, ctx, LedgerSnapshot, Some(1))

\* Editing and pushing a ledger that has transactions, budgets and three accounts
SpecLedger == InitLedger /\ [][NextEdit]_vars

\* What the server may hold for the user: nothing; the pushed snapshot as
\* another device edited it, stamped 0 to 1500 ms after the last local push;
\* the same without a timestamp; an envelope whose data has only transactions
RemoteRows ==
  {NoData}
  \cup {[data |-> OtherEdit(PushedSnapshot), timestamp |-> LastPushTime + d] : d \in 0..3}
  \cup {[data |-> OtherEdit(PushedSnapshot)]}
  \cup {[data |-> [transactions |-> OtherEdit(PushedSnapshot).transactions],
         timestamp |-> LastPushTime + 3]}

\* The state after construction (lines 74-105) on a device whose Local Store
\* holds the snapshot `snap` and the persisted lastSync, no active wallet
InitRestartedWith(snap, lastSync, row) ==
  LET ss == [InitSyncState EXCEPT !.lastSync = lastSync]
  IN /\ live = snap
     /\ syncState = ss
     /\ wallets = IF lastSync # Null THEN {"w1"} ELSE {}
     /\ sessionVersion = 0
     /\ isBackingUp = FALSE
     /\ isLoggingOut = FALSE
     /\ store = [c \in Contexts |-> NoData]
     /\ remoteBackup = row
     /\ remoteWallet = [w \in Wallets |-> NoData]
     /\ remoteWallets = {"w1"}
     /\ tasks = {}
     /\ timer = Capture(snap, ss)
     /\ channel = NoChannel
     /\ now = RestartTime
     /\ nMut = 0
     /\ nTick = 0
     /\ nRemote = 0
     /\ nLogout = 0
     /\ restoredAt = 0
     /\ liveCtx = NullId
     /\ storeCtx = [c \in Contexts |-> NullId]
     /\ leftSnap = [c \in Contexts |-> NoData]
     /\ lastOp = [op |-> "init", res |-> "ok"]

InitRestarted ==
  \E snap \in LocalSnapshots, lastSync \in {Null, Some(LastPushTime)}, row \in RemoteRows :
     InitRestartedWith(snap, lastSync, row)

\* Login reconciliation, sign-out, restore and the realtime listener in the
\* personal context
NextReconcile ==
  \/ authSignedIn \/ authWalletsDone \/ authWalletsFail \/ authBackupDone \/ authBackupFail
  \/ authSignedOut \/ Restore \/ subscribed \/ backupEvent \/ handleOnline \/ handleOffline
SpecReconcile == InitRestarted /\ [][NextReconcile]_vars

\* The state after construction on a device that was closed in context ctx
\* (the persisted activeWalletId, line 98) with a persisted lastSync
InitRestartedIn(ctx, lastSync, row) ==
  LET ss == [InitSyncState EXCEPT !.lastSync = lastSync, !.activeWalletId = ctx]
  IN /\ live = PushedSnapshot
     /\ syncState = ss
     /\ wallets = {"w1"}
     /\ sessionVersion = 0
     /\ isBackingUp = FALSE
     /\ isLoggingOut = FALSE
     /\ store = [c \in Contexts |-> IF c = NullId /\ ctx # NullId THEN DefaultSnapshot
                                    ELSE NoData]
     /\ remoteBackup = row
     /\ remoteWallet = [w \in Wallets |-> NoData]
     /\ remoteWallets = {"w1"}
     /\ tasks = {}
     /\ timer = Capture(PushedSnapshot, ss)
     /\ channel = NoChannel
     /\ now = RestartTime
     /\ nMut = 0
     /\ nTick = 0
     /\ nRemote = 0
     /\ nLogout = 0
     /\ restoredAt = 0
     /\ liveCtx = ctx
     /\ storeCtx = [c \in Contexts |-> NullId]
     /\ leftSnap = [c \in Contexts |-> NoData]
     /\ lastOp = [op |-> "init", res |-> "ok"]

InitLogin ==
  \E ctx \in {NullId, "w1"}, lastSync \in {Null, Some(LastPushTime)}, row \in RemoteRows :
     InitRestartedIn(ctx, lastSync, row)

\* The auth callback and its continuations on a restarted device, online and
\* offline
NextLogin ==
  \/ authSignedIn \/ authWalletsDone \/ authWalletsFail \/ authBackupDone \/ authBackupFail
  \/ authSignedOut \/ handleOnline \/ handleOffline
SpecLogin == InitLogin /\ [][NextLogin]_vars

\* Restoring on a restarted device whose ledger has an account and a category
\* that the server rows do not have
InitMerge ==
  \E row \in RemoteRows :
     InitRestartedWith(addCategoryOp(LedgerSnapshot, "travel", 7), Some(LastPushTime), row)
SpecMerge == InitMerge /\ [][NextReconcile]_vars

\* Signing in on a restarted device while another device's backup on the
\* server is 1500 ms newer than the local lastSync, then editing and pushing
InitBehind ==
  InitRestartedWith(PushedSnapshot, Some(LastPushTime),
                    [data |-> OtherEdit(PushedSnapshot), timestamp |-> LastPushTime + 3])
NextBehind ==
  \/ authSignedIn \/ authWalletsDone \/ authWalletsFail \/ authBackupDone \/ authBackupFail
  \/ SomeMutation \/ timerFire \/ backupStart \/ backupDone \/ backupFail
SpecBehind == InitBehind /\ [][NextBehind]_vars

\* Leaving a context and coming back: an edit, switchWallet with its fetch,
\* the auto-backup timer with the push it starts, online and offline.  No one
\* else writes to the server.
NextReturn ==
  \/ SomeMutation \/ switchWallet \/ switchFetchDone \/ switchFetchFail
  \/ timerFire \/ backupDone \/ backupFail \/ handleOnline \/ handleOffline
SpecReturn == InitEdit /\ [][NextReturn]_vars


\* The clock when the auto-backup timer scenarios start, and the ages of
\* lastSync they draw, in hours
TimerNow == 200 * HoursUnit
SyncAges == {10, 24, 30, 168}

\* A session at rest, signed in or not, 4 seconds after its last render: the
\* timer of the auto-backup effect is pending; with a lastSync, the server holds
\* the snapshot of that push, and a dirty device has a budget edit on top
InitTimerWith(signedIn, autoBackup, lastSync, dirty) ==
  LET pushed == updateSettingsOp(DefaultSnapshot, [autoBackup |-> autoBackup])
      snap == IF dirty THEN updateBudgetOp(pushed, 5) ELSE pushed
      ss == IF signedIn
            THEN [SteadySyncState(NullId) EXCEPT !.lastSync = lastSync,
                                                 !.unsyncedChanges = dirty]
            ELSE [InitSyncState EXCEPT !.unsyncedChanges = dirty]
  IN /\ live = snap
     /\ syncState = ss
     /\ wallets = IF signedIn THEN {"w1"} ELSE {}
     /\ sessionVersion = IF signedIn THEN 1 ELSE 0
     /\ isBackingUp = FALSE
     /\ isLoggingOut = FALSE
     /\ store = [c \in Contexts |-> NoData]
     /\ remoteBackup = IF signedIn /\ lastSync # Null
                       THEN [data |-> pushed, timestamp |-> lastSync[1]] ELSE NoData
     /\ remoteWallet = [w \in Wallets |-> NoData]
     /\ remoteWallets = {"w1"}
     /\ tasks = {}
     /\ timer = Capture(snap, ss)
     /\ channel = Subscribe(snap, ss, FALSE)
     /\ now = TimerNow
     /\ nMut = 0
     /\ nTick = 0
     /\ nRemote = 0
     /\ nLogout = 0
     /\ restoredAt = 0
     /\ liveCtx = NullId
     /\ storeCtx = [c \in Contexts |-> NullId]
     /\ leftSnap = [c \in Contexts |-> NoData]
     /\ lastOp = [op |-> "init", res |-> "ok"]

InitTimer ==
  \E autoBackup \in {"off", "daily", "weekly"}, dirty \in BOOLEAN :
     \/ InitTimerWith(FALSE, autoBackup, Null, dirty)
     \/ \E lastSync \in {Null} \cup {Some(TimerNow - h * HoursUnit) : h \in SyncAges} :
          InitTimerWith(TRUE, autoBackup, lastSync, dirty)

\* The auto-backup timer among pushes from the UI, network changes and logout
NextTimer ==
  \/ timerFire \/ backupStart \/ backupSkipped \/ backupDone \/ backupFail
  \/ handleOnline \/ handleOffline \/ logoutStart \/ logoutDone
SpecTimer == InitTimer /\ [][NextTimer]_vars


\* The realtime listener of a signed-in session, personal or in wallet w1:
\* inbound events among pushes of this device and of others
InitRealtime ==
  \E ctx \in {NullId, "w1"} :
     \/ InitSteady({"w1"}, ctx, DefaultSnapshot, Null)
     \/ InitSteady({"w1"}, ctx, PushedSnapshot, Some(1))
NextRealtime ==
  \/ subscribed \/ walletEvent \/ backupEvent \/ otherWalletWrite \/ otherBackupWrite
  \/ backupStart \/ backupDone \/ backupFail \/ tick
SpecRealtime == InitRealtime /\ [][NextRealtime]_vars

\* ... and the life of its subscription among context switches, the realtime
\* setting, network changes and logout
NextSubscription ==
  \/ subscribed \/ updateSettings \/ switchWallet \/ switchFetchDone \/ switchFetchFail
  \/ handleOnline \/ handleOffline \/ logoutStart \/ logoutDone
SpecSubscription == InitRealtime /\ [][NextSubscription]_vars

\* ================================================================ properties
\* A step in which backupUserData() was called from the UI
PushCalled ==
  /\ lastOp'.op = "backup"
  /\ lastOp'.res \in {"started", "skipped"}
  /\ lastOp'.via = "ui"
  /\ lastOp' # lastOp

\* A step in which the network write of a push ended with the result res
PushEnded(res) ==
  /\ PushTasks' # PushTasks
  /\ lastOp'.op = "backup"
  /\ lastOp'.res = res

RemoteUnchanged == UNCHANGED << remoteBackup, remoteWallet >>

C2_SingleFlight ==
  /\ [](Cardinality(PushTasks) <= 1 /\ (isBackingUp <=> PushTasks # {}))
  /\ [][ isBackingUp =>
          /\ PushTasks' \subseteq PushTasks
          /\ PushCalled => /\ lastOp'.res = "skipped"
                           /\ RemoteUnchanged
                           /\ UNCHANGED << syncState, tasks, isBackingUp >>
        ]_vars

\* A push was requested while another one, of a dirty snapshot, is in flight
C2_Witness ==
  /\ lastOp.op = "backup" /\ lastOp.res = "skipped"
  /\ isBackingUp
  /\ Cardinality(PushTasks) = 1
  /\ syncState.unsyncedChanges

\* C3 as stated: of two calls of push with no mutation between them, the second
\* is skipped and writes nothing, whether the first has completed or not
C3_SecondPushSkipped ==
  [][ /\ lastOp.op = "backup" /\ lastOp.res \in {"started", "ok"}
      /\ PushCalled
      => lastOp'.res = "skipped" /\ PushTasks' = PushTasks
    ]_vars

\* C3, amended: the second call is skipped, and one network push results, when
\* the first call is still in flight; after the first has completed, the second
\* call starts a second network push
C3_SecondPushSkippedInFlight ==
  [][ /\ lastOp.op = "backup" /\ lastOp.res \in {"started", "ok"}
      /\ PushCalled
      => IF lastOp.res = "started"
         THEN lastOp'.res = "skipped" /\ PushTasks' = PushTasks /\ Cardinality(PushTasks) = 1
         ELSE lastOp'.res = "started" /\ PushTasks = {} /\ Cardinality(PushTasks') = 1
    ]_vars

\* The second of two calls was skipped while the first is in flight
C3_Witness ==
  /\ lastOp.op = "backup" /\ lastOp.res = "skipped"
  /\ \E t \in PushTasks : t.via = "ui"
  /\ nMut = 0

\* C4: a failed network write is reported to the caller, leaves unsyncedChanges
\* and lastSync as they were, writes nothing, and releases the guard, so that
\* a later push can start
C4_FailureKeepsDirty ==
  [][ PushEnded("error") =>
        /\ syncState'.unsyncedChanges = syncState.unsyncedChanges
        /\ syncState'.lastSync = syncState.lastSync
        /\ RemoteUnchanged
        /\ ~isBackingUp' /\ ~syncState'.isSyncing
        /\ PushTasks' = {}
    ]_vars

\* A push of a dirty snapshot has failed
C4_Witness ==
  /\ lastOp.op = "backup" /\ lastOp.res = "error"
  /\ syncState.unsyncedChanges
  /\ ~isBackingUp

\* C5: a successful network write sets unsyncedChanges to false and lastSync
\* to the time of the push, in the personal context and in a wallet
C5_SuccessCleans ==
  [][ PushEnded("ok") =>
        /\ ~syncState'.unsyncedChanges
        /\ syncState'.lastSync = Some(now)
        /\ lastOp'.scope = NullId => remoteBackup'.timestamp = now
        /\ lastOp'.scope # NullId => remoteWallet'[lastOp'.scope].data \in {t.data : t \in PushTasks}
    ]_vars

\* A wallet push that began dirty has succeeded, later than the last one
C5_Witness ==
  /\ lastOp.op = "backup" /\ lastOp.res = "ok" /\ lastOp.scope = "w1"
  /\ ~syncState.unsyncedChanges
  /\ syncState.lastSync = Some(now)
  /\ now > 1
  /\ nMut > 0

\* C6: unsyncedChanges goes from true to false only in the step in which a
\* push succeeds
C6_OnlyPushCleans ==
  [][ syncState.unsyncedChanges /\ ~syncState'.unsyncedChanges => PushEnded("ok") ]_vars

\* A step in which switchWallet ran, called directly or by createWallet or
\* deleteWallet
ContextSwitched ==
  /\ lastOp' # lastOp
  /\ \/ lastOp'.op = "switchWallet"
     \/ lastOp'.op = "createWallet" /\ lastOp'.res = "ok"
     \/ lastOp'.op = "deleteWallet" /\ lastOp'.res = "switched"

\* C7: every operation that switches context writes the live snapshot of that
\* moment under the outgoing context's key
C7_OutgoingSaved ==
  [][ ContextSwitched => store'[syncState.activeWalletId] = live ]_vars

C9_LiveBelongsToActive ==
  /\ ~isLoggingOut => liveCtx = syncState.activeWalletId
  /\ \A c \in Contexts : store[c] # NoData => storeCtx[c] = c

\* A step in which a login continuation completed after a newer login or
\* logout transition had begun
StaleLoginCompleted ==
  /\ tasks' # tasks
  /\ lastOp'.op \in {"authWallets", "authBackup"}
  /\ lastOp'.born # Transitions

\* C10: a login continuation that completes after a newer transition began
\* changes neither SyncState nor the wallet list
C10_StaleLoginDiscarded ==
  [][ StaleLoginCompleted => UNCHANGED << syncState, wallets >> ]_vars

\* ------------------------------------------------------- login and restore
LoginReconciled == lastOp.op = "authBackup" /\ lastOp.res = "ok"

\* C11: at login in the personal context with a remote backup present, the
\* restore prompt is raised exactly when the local lastSync is absent or the
\* remote timestamp is more than 1000 ms (two clock units) later than it: 500 ms
\* and 1000 ms later do not raise it, 1500 ms later does.
C11_StalenessWindow ==
  LoginReconciled =>
    /\ syncState.pendingRestoreAvailable <=>
         \/ lastOp.local = Null
         \/ lastOp.cloud # Null /\ lastOp.cloud[1] - lastOp.local[1] > GraceWindow
    /\ lastOp.local # Null /\ lastOp.cloud # Null =>
         /\ lastOp.cloud[1] - lastOp.local[1] \in {1, 2} => ~syncState.pendingRestoreAvailable
         /\ lastOp.cloud[1] - lastOp.local[1] = 3 => syncState.pendingRestoreAvailable

C11_Witness ==
  /\ LoginReconciled
  /\ lastOp.local = Some(LastPushTime)
  /\ lastOp.cloud = Some(LastPushTime + GraceWindow)
  /\ ~syncState.pendingRestoreAvailable

RowStamp(row) == IF "timestamp" \in DOMAIN row THEN Some(row.timestamp) ELSE Null

\* C12: login reconciliation never changes the live snapshot: when the remote
\* backup is newer it only raises the restore prompt and records the remote
\* timestamp in lastSync; the live snapshot changes only in the step in which a
\* restoreBackup('replace' | 'merge') called by the user succeeds.
C12_LoginKeepsLive ==
  [][ /\ lastOp'.op \in {"signIn", "authWallets", "authBackup"} => live' = live
      /\ lastOp'.op = "authBackup" /\ lastOp'.res = "ok" /\ syncState'.pendingRestoreAvailable =>
           /\ syncState'.lastSync = RowStamp(remoteBackup)
           /\ syncState'.unsyncedChanges = syncState.unsyncedChanges
           /\ syncState'.activeWalletId = syncState.activeWalletId
      /\ live' # live =>
           lastOp'.op = "restore" /\ lastOp'.res = "true" /\ lastOp'.strat \in {"replace", "merge"}
    ]_vars

C12_Witness ==
  /\ LoginReconciled
  /\ syncState.pendingRestoreAvailable
  /\ lastOp.local = Some(LastPushTime)
  /\ syncState.lastSync = Some(LastPushTime + 3)
  /\ remoteBackup.data # live
  /\ live = LocalEdited

\* C13: restoreBackup('skip') sets pendingRestoreAvailable to false and leaves
\* the live snapshot, lastSync and unsyncedChanges unchanged, and starts no
\* network call.
C13_SkipClearsPrompt ==
  [][ lastOp'.op = "restore" /\ lastOp'.strat = "skip" =>
        /\ ~syncState'.pendingRestoreAvailable
        /\ live' = live
        /\ syncState'.lastSync = syncState.lastSync
        /\ syncState'.unsyncedChanges = syncState.unsyncedChanges
        /\ tasks' = tasks
    ]_vars

RestoreSucceeded(strat) ==
  lastOp.op = "restore" /\ lastOp.res = "true" /\ lastOp.strat = strat

\* C14: after restoreBackup('replace') succeeds, every field of the live
\* snapshot equals the field of the remote snapshot, and a field absent from
\* the remote snapshot holds the default of an empty Local Store; no field is
\* undefined and no local value survives.
C14_ReplaceOverwrites ==
  RestoreSucceeded("replace") =>
    /\ DOMAIN live = DOMAIN DefaultSnapshot
    /\ \A f \in DOMAIN DefaultSnapshot :
         live[f] = IF f \in DOMAIN remoteBackup.data THEN remoteBackup.data[f]
                   ELSE DefaultSnapshot[f]

C14_Witness ==
  /\ RestoreSucceeded("replace")
  /\ DOMAIN remoteBackup.data = {"transactions"}
  /\ live.transactions = remoteBackup.data.transactions
  /\ live.budget = 0
  /\ live.settings = DEFAULT_SETTINGS

\* C15: after restoreBackup('merge') succeeds, the live transactions are the
\* union by id of the local and the remote transactions: the remote entry is
\* kept on an id collision, every local-only entry is preserved, no id occurs
\* twice, and the sequence is sorted descending by date.
C15_MergeUnion ==
  [][ RestoreSucceeded("merge")' =>
        LET txs == live'.transactions
            remote == Field(remoteBackup.data, "transactions", <<>>)
            remoteIds == {t.id : t \in Range(remote)}
        IN /\ Range(txs) = Range(remote)
                              \cup {t \in Range(live.transactions) : t.id \notin remoteIds}
           /\ \A i, j \in DOMAIN txs : i # j => txs[i].id # txs[j].id
           /\ \A i, j \in DOMAIN txs : i < j => txs[i].date >= txs[j].date
    ]_vars

\* local {80, 90}, remote {100, 90'}: the result is <<80, 100, 90'>>
C15_Witness ==
  /\ RestoreSucceeded("merge")
  /\ Len(live.transactions) = 3
  /\ live.transactions[1].id = 80
  /\ live.transactions[2].id = 100
  /\ live.transactions[3].id = 90
  /\ live.transactions[3] \in Range(remoteBackup.data.transactions)
  /\ live.transactions[3] \notin Range(LocalEdited.transactions)

\* C16: in restoreBackup('merge'), budget, per-category budgets and settings
\* are shallow-merged: a remote value overrides the local value for a matching
\* key, and a local per-category budget or setting whose key is absent from the
\* remote copy is preserved.
C16_MergeKeepsLocalKeys ==
  [][ RestoreSucceeded("merge")' =>
        LET data == remoteBackup.data
            cloudSettings == Field(data, "settings", <<>>)
            cloudCatBudgets == Field(data, "category_budgets", <<>>)
            cloudCats == {b.categoryId : b \in Range(cloudCatBudgets)}
        IN /\ live'.budget = Field(data, "budget", live.budget)
           /\ \A k \in DOMAIN live.settings :
                live'.settings[k] = Field(cloudSettings, k, live.settings[k])
           /\ \A b \in Range(cloudCatBudgets) : b \in Range(live'.category_budgets)
           /\ \A b \in Range(live.category_budgets) :
                b.categoryId \notin cloudCats => b \in Range(live'.category_budgets)
    ]_vars

\* C17: after restoreBackup('replace' | 'merge') succeeds,
\* pendingRestoreAvailable is false and lastSync is the remote timestamp, or
\* null when the remote timestamp is unknown; a following login with an
\* unchanged remote backup does not raise the restore prompt again.
C17_RestoreSettlesPrompt ==
  [][ /\ RestoreSucceeded("replace")' \/ RestoreSucceeded("merge")' =>
           /\ ~syncState'.pendingRestoreAvailable
           /\ syncState'.lastSync = RowStamp(remoteBackup)
      /\ LoginReconciled' /\ restoredAt > 0 /\ lastOp'.born > restoredAt
         /\ remoteBackup' = remoteBackup =>
           ~syncState'.pendingRestoreAvailable
    ]_vars

\* ------------------------------------------------------- auto-backup timer
\* step predicates: the pending timeout fires; a push is started
TimerFires == timer.armed /\ timer' = NoTimer
TimerPushStarted ==
  /\ ~isBackingUp /\ isBackingUp'
  /\ \E t \in tasks' \ tasks : t.kind = "push"
TimerReady ==
  /\ syncState.isLoggedIn /\ syncState.user # NullId /\ syncState.isOnline
  /\ ~isLoggingOut /\ ~isBackingUp
HoursSinceSync(h) == syncState.lastSync # Null /\ now - syncState.lastSync[1] = h * HoursUnit

\* C18: when the timer fires while authenticated, online, not logging out and
\* with no push in flight, and unsyncedChanges is true, a push is started at
\* once, whatever the time since lastSync and the autoBackup setting.
C18_DirtyPushesAtOnce ==
  [][ TimerFires /\ TimerReady /\ syncState.unsyncedChanges => TimerPushStarted ]_vars

C18_Witness ==
  /\ lastOp.op = "backup" /\ lastOp.res = "started" /\ lastOp.via = "timerDirty"
  /\ live.settings.autoBackup = "off"
  /\ HoursSinceSync(10)
  /\ syncState.unsyncedChanges

\* C19 as stated: with unsyncedChanges false the timer starts no push when
\* autoBackup is off; otherwise it starts one exactly when lastSync is absent or
\* the hours since lastSync exceed the threshold (24 daily, 168 weekly).
C19_PushWhenOverThreshold ==
  [][ TimerFires /\ TimerReady /\ ~syncState.unsyncedChanges =>
        LET threshold == IF live.settings.autoBackup = "daily" THEN 24 ELSE 168
        IN TimerPushStarted <=>
             /\ live.settings.autoBackup # "off"
             /\ \/ syncState.lastSync = Null
                \/ now - syncState.lastSync[1] > threshold * HoursUnit
    ]_vars

\* C19 amended: with unsyncedChanges false the timer starts no push when
\* autoBackup is off; otherwise it starts one exactly when lastSync is absent or
\* the hours since lastSync have reached the threshold (24 daily, 168 weekly):
\* daily at 30 hours pushes, at 10 hours does not, at 24 hours pushes.
C19_PushWhenThresholdReached ==
  [][ TimerFires /\ TimerReady /\ ~syncState.unsyncedChanges =>
        LET threshold == IF live.settings.autoBackup = "daily" THEN 24 ELSE 168
        IN /\ TimerPushStarted <=>
                /\ live.settings.autoBackup # "off"
                /\ \/ syncState.lastSync = Null
                   \/ now - syncState.lastSync[1] >= threshold * HoursUnit
           /\ live.settings.autoBackup = "daily" /\ HoursSinceSync(30) => TimerPushStarted
           /\ live.settings.autoBackup = "daily" /\ HoursSinceSync(10) => ~TimerPushStarted
    ]_vars

C19_Witness ==
  /\ lastOp.op = "backup" /\ lastOp.res = "started" /\ lastOp.via = "timerDue"
  /\ live.settings.autoBackup = "daily"
  /\ HoursSinceSync(24)
  /\ ~syncState.unsyncedChanges

\* C20: when the timer fires while the user is not authenticated, the device
\* is offline, a logout is in progress or a push is in flight, no push is
\* started and nothing changes but the consumed timeout.
C20_TimerNoOp ==
  [][ TimerFires /\ ~TimerReady =>
        /\ ~TimerPushStarted
        /\ UNCHANGED << live, syncState, wallets, sessionVersion, isBackingUp, isLoggingOut,
                        store, remoteBackup, remoteWallet, remoteWallets, tasks, channel, now >>
    ]_vars

C20_Witness ==
  /\ lastOp.op = "timer" /\ lastOp.res = "idle"
  /\ isLoggingOut
  /\ syncState.isLoggedIn /\ syncState.isOnline /\ syncState.unsyncedChanges
  /\ ~isBackingUp

\* ------------------------------------------------------- realtime listener
EventDelivered == lastOp.op \in {"walletEvent", "backupEvent"}

\* C21: no inbound realtime event, on the wallet channel or on the user backup
\* channel, changes the live snapshot or what Local Store holds of it: an event
\* only raises a signal or the pendingRestoreAvailable flag.
C21_EventsKeepLive ==
  [][ EventDelivered' =>
        /\ live' = live
        /\ store' = store
        /\ syncState' \in {syncState, [syncState EXCEPT !.pendingRestoreAvailable = TRUE]}
    ]_vars

C21_Witness ==
  /\ lastOp = Op("walletEvent", "signal")
  /\ syncState.pendingRestoreAvailable
  /\ syncState.activeWalletId = "w1"
  /\ remoteWallet["w1"].data # live

BackupAuthor(row) == IF "device" \in DOMAIN row THEN row.device ELSE Me

\* C23: each inbound realtime event whose author differs from the current user
\* raises an informational signal, and an event caused by this user's own push
\* raises none, on the wallet channel and on the user backup channel.
C23_SignalForOthersOnly ==
  [][ /\ lastOp'.op = "walletEvent" =>
           (lastOp'.res = "signal" <=> remoteWallet[channel.scope].updated_by # syncState.user)
      /\ lastOp'.op = "backupEvent" =>
           (lastOp'.res = "signal" <=> BackupAuthor(remoteBackup) # syncState.user)
    ]_vars

AccountDeleted(id) ==
  /\ nMut' # nMut
  /\ lastOp'.op = "deleteAccount"
  /\ id \in AccountIds(live) \ AccountIds(live')

Reassigned(ref, id, to) == IF ref = id THEN to ELSE ref

C25_DeleteAccountReassigns ==
  [][ \A id \in AccountIds(live) :
        AccountDeleted(id) /\ AccountIds(live) # {id} =>
          LET first == (CHOOSE i \in DOMAIN live.accounts :
                          /\ live.accounts[i].id # id
                          /\ \A j \in 1..(i - 1) : live.accounts[j].id = id)
              to == live.accounts[first].id
          IN /\ Len(live'.transactions) = Len(live.transactions)
             /\ \A i \in DOMAIN live.transactions :
                  LET t == live.transactions[i]
                      u == live'.transactions[i]
                      refers == id \in {t.accountId, t.fromAccountId, t.toAccountId}
                  IN IF refers
                     THEN u = [t EXCEPT !.accountId = Reassigned(@, id, to),
                                        !.fromAccountId = Reassigned(@, id, to),
                                        !.toAccountId = Reassigned(@, id, to),
                                        !.isPendingSync = TRUE]
                     ELSE u = t
             /\ Range(live'.accounts) = {a \in Range(live.accounts) : a.id # id}
             /\ syncState'.unsyncedChanges
    ]_vars

\* account 1 of the three-account ledger is deleted: the transfer from 3 to 1
\* now goes to account 2 and is pending, the expense on account 2 is not
C25_Witness ==
  /\ lastOp.op = "deleteAccount"
  /\ AccountIds(live) = {2, 3}
  /\ \E t \in Range(live.transactions) :
        t.id = 60 /\ t.fromAccountId = 3 /\ t.toAccountId = 2 /\ t.isPendingSync
  /\ \E t \in Range(live.transactions) : t.id = 70 /\ ~t.isPendingSync
  /\ \E t \in Range(live.transactions) : t.id = 90 /\ t.accountId = 2
  /\ syncState.unsyncedChanges

\* C26: deleteAccount and deleteCategory remove no transaction, the set of
\* transaction ids is the same before and after; deleteCategory clears the
\* category reference of every transaction that referenced the category, marks
\* those transactions pending and removes the budget entry of the category.
CategoryDeleted(id) ==
  /\ nMut' # nMut
  /\ lastOp'.op = "deleteCategory"
  /\ id \in CategoryIds(live) \ CategoryIds(live')

C26_DeleteKeepsTransactions ==
  [][ /\ nMut' # nMut /\ lastOp'.op \in {"deleteAccount", "deleteCategory"} =>
           /\ TxIds(live') = TxIds(live)
           /\ Len(live'.transactions) = Len(live.transactions)
      /\ \A id \in CategoryIds(live) :
           CategoryDeleted(id) =>
             /\ \A i \in DOMAIN live.transactions :
                  LET t == live.transactions[i]
                      u == live'.transactions[i]
                  IN IF t.categoryId = id
                     THEN u = [t EXCEPT !.categoryId = NoRef, !.isPendingSync = TRUE]
                     ELSE u = t
             /\ Range(live'.category_budgets)
                  = {b \in Range(live.category_budgets) : b.categoryId # id}
    ]_vars

\* category 1 of the ledger is deleted: its expense stays, without a category
\* and pending; the budget of the category is gone
C26_Witness ==
  /\ lastOp.op = "deleteCategory"
  /\ 1 \notin CategoryIds(live)
  /\ TxIds(live) = TxIds(LedgerSnapshot)
  /\ \E t \in Range(live.transactions) : t.id = 90 /\ t.categoryId = NoRef /\ t.isPendingSync
  /\ \E t \in Range(live.transactions) : t.id = 70 /\ ~t.isPendingSync
  /\ LedgerSnapshot.category_budgets # <<>>
  /\ live.category_budgets = <<>>

\* C27: a transaction is marked pending exactly when it was created or
\* modified locally since the last successful push: when a push has succeeded
\* and the live snapshot is the one it wrote (no mutation since it started), no
\* transaction of the live snapshot is marked pending.
PushedCopy(scope) ==
  IF scope = NullId THEN remoteBackup ELSE remoteWallet[scope]

C27_PushClearsPending ==
  ( /\ lastOp.op = "backup"
    /\ lastOp.res = "ok"
    /\ PushedCopy(lastOp.scope).data = live
    /\ ~syncState.unsyncedChanges )
  => \A t \in Range(live.transactions) : ~t.isPendingSync

\* C28: when logout has completed, with the sign-out call succeeding or
\* failing, SyncState holds the unauthenticated defaults (isLoggedIn false, no
\* user, no active context, no lastSync, unsyncedChanges false,
\* isRealtimeConnected false, pendingRestoreAvailable false), the wallet list is
\* empty and the logout guard is cleared.
LogoutCompleted == lastOp.op = "logoutDone"

LoggedOutButPrompt ==
  /\ ~syncState.isLoggedIn
  /\ syncState.user = NullId
  /\ syncState.activeWalletId = NullId
  /\ syncState.lastSync = Null
  /\ ~syncState.unsyncedChanges
  /\ ~syncState.isRealtimeConnected
  /\ wallets = {}
  /\ ~isLoggingOut

C28_LogoutResetsSyncState ==
  LogoutCompleted => LoggedOutButPrompt /\ ~syncState.pendingRestoreAvailable

\* C29: restoreBackup ends with true or false, never with an error.  When it
\* ends with false (no user signed in, the fetch failed, no remote data) the
\* live snapshot, pendingRestoreAvailable and lastSync are what they were; it
\* ends with true only in a step that applied the strategy: skip dismissed the
\* prompt, replace put the remote transactions in place of the local ones,
\* merge has every remote transaction and every local id in the result.
RestoreEnded(res) == lastOp'.op = "restore" /\ lastOp'.res = res

C29_RestoreReturnsOutcome ==
  [][ /\ lastOp'.op = "restore" => lastOp'.res \in {"started", "true", "false"}
      /\ RestoreEnded("false") =>
           /\ live' = live
           /\ syncState'.pendingRestoreAvailable = syncState.pendingRestoreAvailable
           /\ syncState'.lastSync = syncState.lastSync
      /\ RestoreEnded("true") =>
           LET row == IF liveCtx' # NullId THEN remoteWallet[liveCtx'] ELSE remoteBackup
               remote == Field(row.data, "transactions", <<>>)
           IN /\ ~syncState'.pendingRestoreAvailable
              /\ lastOp'.strat = "skip" => live' = live
              /\ lastOp'.strat = "replace" => live'.transactions = remote
              /\ lastOp'.strat = "merge" =>
                   /\ Range(remote) \subseteq Range(live'.transactions)
                   /\ TxIds(live) \subseteq TxIds(live')
    ]_vars

\* a merge was asked for while the prompt was up and the fetch failed or found
\* nothing: the outcome is false, the prompt is still up, the local edits are
\* still the live snapshot
C29_Witness ==
  /\ lastOp.op = "restore"
  /\ lastOp.res = "false"
  /\ lastOp.strat = "merge"
  /\ syncState.user # NullId
  /\ syncState.pendingRestoreAvailable
  /\ syncState.lastSync # Null
  /\ live = LocalEdited

\* C30: a push started by the auto-backup timer that fails never lets its error
\* out of the timer handler, whichever branch started it (unsynced changes, no
\* lastSync, threshold reached), and leaves unsyncedChanges for the next firing.
TimerPushFailed ==
  /\ lastOp.op = "backup"
  /\ lastOp.res = "error"
  /\ lastOp.via \in {"timerDirty", "timerDue"}

C30_TimerPushErrorContained ==
  TimerPushFailed => lastOp.error = "caught"

\* C31: switchWallet to a wallet that has no snapshot in Local Store makes the
\* empty default snapshot the live one: no transaction, budget or category
\* budget of the outgoing context is in it and the outgoing settings are not
\* carried over.
SwitchedTo(w) == lastOp'.op = "switchWallet" /\ lastOp'.to = w

C31_NewWalletStartsEmpty ==
  [][ \A w \in Wallets :
        SwitchedTo(w) /\ store[w] = NoData =>
          /\ live'.transactions = <<>>
          /\ live'.budget = 0
          /\ live'.category_budgets = <<>>
          /\ live'.settings = DEFAULT_SETTINGS
          /\ live' = DefaultSnapshot
    ]_vars

\* the personal context was left with transactions, budgets and autoBackup
\* 'daily'; the wallet opens empty with autoBackup 'off'
C31_Witness ==
  /\ lastOp.op = "switchWallet"
  /\ lastOp.to = "w1"
  /\ lastOp.from = NullId
  /\ store["w1"] = NoData
  /\ leftSnap[NullId].transactions # <<>>
  /\ leftSnap[NullId].category_budgets # <<>>
  /\ leftSnap[NullId].settings.autoBackup = "daily"
  /\ live = DefaultSnapshot

\* C32: switchWallet makes the target the active context in the step of the
\* call; when the remote fetch for the wallet then fails or finds no row, the
\* snapshot loaded from Local Store (or the empty default) stays the live one,
\* the active context stays what it was, and the fetch ends without an error
\* for the caller.
FetchEndedEmpty == lastOp'.op = "switchFetch" /\ lastOp'.res \in {"error", "absent"}

C32_FailedFetchKeepsLocal ==
  [][ /\ lastOp'.op = "switchWallet" => syncState'.activeWalletId = lastOp'.to
      /\ lastOp'.op = "switchFetch" => lastOp'.res \in {"applied", "absent", "error"}
      /\ FetchEndedEmpty =>
           /\ live' = live
           /\ syncState'.activeWalletId = syncState.activeWalletId
           /\ store' = store
    ]_vars

\* the fetch for w1 failed although the server has a row for it: the session
\* is in w1 with the empty default snapshot
C32_Witness ==
  /\ lastOp.op = "switchFetch"
  /\ lastOp.res = "error"
  /\ syncState.activeWalletId = "w1"
  /\ remoteWallet["w1"] # NoData
  /\ live = DefaultSnapshot
  /\ liveCtx = "w1"

\* C33: at login with no active wallet recorded, when the remote backup is not
\* newer than the local lastSync (no later than 1000 ms after it), lastSync
\* becomes the remote timestamp and pendingRestoreAvailable is false.  With an
\* active wallet recorded no reconciliation fetch is started, and neither that
\* login nor one that finds no remote backup changes lastSync or
\* pendingRestoreAvailable.
NotNewer(local, cloud) ==
  /\ local # Null
  /\ cloud # Null => cloud[1] - local[1] <= GraceWindow

PointerKept ==
  /\ syncState'.lastSync = syncState.lastSync
  /\ syncState'.pendingRestoreAvailable = syncState.pendingRestoreAvailable

C33_LoginAdoptsOrKeeps ==
  [][ /\ LoginReconciled' /\ NotNewer(lastOp'.local, lastOp'.cloud) =>
           /\ syncState'.lastSync = lastOp'.cloud
           /\ ~syncState'.pendingRestoreAvailable
      /\ lastOp'.op \in {"signIn", "authWallets"} =>
           /\ PointerKept
           /\ syncState.activeWalletId # NullId =>
                {t \in tasks' : t.kind = "authBackup"} \subseteq tasks
      /\ lastOp'.op = "authBackup" /\ lastOp'.res = "absent" => PointerKept
    ]_vars

\* the remote backup is stamped 1000 ms after the local lastSync: the pointer
\* moves to the remote stamp without a prompt
C33_Witness ==
  /\ LoginReconciled
  /\ lastOp.local # Null
  /\ lastOp.cloud # Null
  /\ lastOp.cloud[1] > lastOp.local[1]
  /\ syncState.lastSync = lastOp.cloud
  /\ ~syncState.pendingRestoreAvailable

\* C34: restoreBackup('merge') does not union accounts and categories: after
\* the restore the live accounts and categories are the remote copy's, and an
\* account or category that only the local snapshot had is gone.
C34_MergeReplacesAccounts ==
  [][ RestoreSucceeded("merge")' =>
        LET data == remoteBackup.data
            cloudAccounts == Field(data, "accounts", INITIAL_ACCOUNTS)
            cloudCats == Field(data, "categories", INITIAL_CATEGORIES)
        IN /\ live'.accounts = cloudAccounts
           /\ live'.categories = cloudCats
           /\ \A a \in Range(live.accounts) :
                a.id \notin {c.id : c \in Range(cloudAccounts)} => a.id \notin AccountIds(live')
           /\ \A a \in Range(live.categories) :
                a.id \notin {c.id : c \in Range(cloudCats)} => a.id \notin CategoryIds(live')
    ]_vars

\* after the merge account 3 and category 70 are gone, while the local-only
\* transfer out of account 3 is still in the ledger
C34_Witness ==
  /\ RestoreSucceeded("merge")
  /\ AccountIds(live) = {1, 2}
  /\ CategoryIds(live) = {1}
  /\ \E t \in Range(live.transactions) : t.id = 60 /\ t.fromAccountId = 3
  /\ \E t \in Range(live.transactions) : t.id = 100

\* C35: a mutating operation applied while a push is in flight is not lost
\* from the sync signal: when that push has succeeded and the live snapshot is
\* no longer the one it wrote, unsyncedChanges is true.
C35_MutationDuringPushStaysDirty ==
  ( /\ lastOp.op = "backup"
    /\ lastOp.res = "ok"
    /\ nMut > 0
    /\ PushedCopy(lastOp.scope).data # live )
  => syncState.unsyncedChanges

\* C36: remote data fetched for a context, by the fetch of switchWallet or by
\* restoreBackup, is applied to the live snapshot only if that context is
\* still the active one when the fetch completes.
FetchApplied ==
  \/ lastOp'.op = "switchFetch" /\ lastOp'.res = "applied"
  \/ lastOp'.op = "restore" /\ lastOp'.res = "true" /\ lastOp'.strat # "skip"

C36_FetchAppliedToItsContext ==
  [][ FetchApplied /\ live' # live => liveCtx' = syncState.activeWalletId ]_vars

\* C37: while pendingRestoreAvailable is true in the personal context, no push
\* overwrites the remote backup: the backup on the server stays what it is
\* until the user has chosen a restore strategy.
C37_PromptHoldsPushes ==
  [][ syncState.pendingRestoreAvailable /\ syncState.activeWalletId = NullId =>
        remoteBackup' = remoteBackup ]_vars

\* C38: a mutation made in a context is pushed or stays flagged: once the user
\* is back in a context, signed in and online, either unsyncedChanges is true
\* or the server holds the snapshot the context was left with, and the fetch
\* of the switch does not put the server's older copy in its place.
BackIn(c) ==
  /\ lastOp.op \in {"switchWallet", "switchFetch"}
  /\ syncState.activeWalletId = c
  /\ syncState.isLoggedIn
  /\ syncState.isOnline
  /\ leftSnap[c] # NoData
  /\ PushedCopy(c) # NoData

C38_EditSurvivesRoundTrip ==
  \A c \in Contexts :
     BackIn(c) /\ leftSnap[c] # PushedCopy(c).data => syncState.unsyncedChanges

\* C39: asynchronous work started in an authenticated session (a push, a
\* restore, the fetch of a wallet switch, a login reconciliation) that
\* completes after logout has finished changes neither lastSync nor
\* pendingRestoreAvailable nor the live snapshot.
LoggedOutAtRest == nLogout > 0 /\ ~isLoggingOut /\ syncState.user = NullId

Continuation ==
  lastOp'.op \in {"authWallets", "authBackup", "backup", "restore", "switchFetch"}

C39_LateWorkDiscarded ==
  [][ LoggedOutAtRest /\ Continuation =>
        /\ syncState'.lastSync = syncState.lastSync
        /\ syncState'.pendingRestoreAvailable = syncState.pendingRestoreAvailable
        /\ live' = live
    ]_vars

\* C40: the session generation counter never decreases, and it is incremented
\* by one at the start of every login transition and of every logout
\* transition: the sign-in and the sign-out delivered by the auth callback, and
\* the logout the user starts.
TransitionBegins ==
  \/ lastOp'.op \in {"signIn", "signOut"}
  \/ lastOp'.op = "logout" /\ lastOp'.res = "started"

C40_CounterCountsTransitions ==
  [][ /\ sessionVersion' >= sessionVersion
      /\ TransitionBegins => sessionVersion' = sessionVersion + 1
    ]_vars

====
